---- MODULE Spec2Model ----
(***************************************************************************)
(* BotShepherd WebSocket proxy: the listeners, the per-client              *)
(* ProxyConnection, the Sakoya adapter and converter, the auth command.    *)
(*                                                                         *)
(* SpecListener  - accept handling of the two listeners for one            *)
(*                 connection_id.                                          *)
(* SpecRoute     - one ProxyConnection: startup, the message pipeline of   *)
(*                 both directions, reconnects, reload flag, stop.         *)
(* SpecStartup   - the startup sequence of SpecRoute alone.                *)
(* SpecConn      - the recv and reconnect tasks of the target slots.       *)
(* SpecReconnect - one reconnect task through its near and far phase.      *)
(* SpecReload    - reload_targets from await to await, next to the         *)
(*                 client-recv loop.                                       *)
(* SpecOrder     - the client-recv loop with its frames in flight.         *)
(* SpecRoutes    - the route table and the accepts of UnifiedProxyServer   *)
(*                 and UnifiedHttpWsServer.                                *)
(* SpecPorts     - the port servers of UnifiedProxyServer over reloads.    *)
(* SpecConvert   - SakowaConverter: a OneBot event to Sakoya and back.     *)
(* SpecAdapter   - SakoyaWebSocketAdapter.send with its reply cache.       *)
(* SpecCache     - the reply cache filled past its size limit.             *)
(* SpecAuth      - the auth command on AuthManager.                        *)
(* SpecEcho      - the echo cache of a ProxyConnection filled up to its    *)
(*                 purge.                                                  *)
(* SpecRecv      - SakoyaWebSocketAdapter.recv under the recv loop of a    *)
(*                 target.                                                 *)
(***************************************************************************)
EXTENDS Integers, Sequences, FiniteSets, TLC

(***************************************************************************)
(* Bounds of the model.                                                    *)
(***************************************************************************)
\* number of client sockets that try to connect to the one connection_id
NumAccepts == 3

(***************************************************************************)
(* Listener state (one connection_id).                                     *)
(***************************************************************************)
VARIABLES
    server,              \* which listener class runs: "ProxyServer" / "UnifiedProxyServer"
    hpc,                 \* position of each connection_handler task
    client_state,        \* state of each accepted client socket: "NEW", "OPEN", "CLOSED"
    close_code,          \* close code the listener sent on each socket ("none" if it sent none)
    active_connections,  \* connection_id -> ProxyConnection: 0 (no entry) or the accept that owns it
    connection_locks,    \* holder of the connection_id's asyncio.Lock: 0 (free) or an accept
    conn_running,        \* ProxyConnection.running of the connection made for each accept
    old_conn,            \* UnifiedProxyServer: the connection a handler is stopping
    dup_accept,          \* history: the accept arrived while a connection with an OPEN socket existed
    served               \* history: a ProxyConnection was created and started for the accept

lvars == <<server, hpc, client_state, close_code, active_connections,
           connection_locks, conn_running, old_conn, dup_accept, served>>

\* number of target endpoints of the connection's configuration
NumTargets == 2
\* number of target sockets that can be opened in one behaviour
MaxSockets == 3
\* number of frames the forwarding loops handle in one behaviour
MaxFrames == 2
\* number of reload_targets calls in one behaviour
MaxReloads == 1

VARIABLES
    config,               \* self.config["target_endpoints"]: sequence of [disabled, sakoya]
    target_connections,   \* self.target_connections: sequence of socket ids, 0 is None
    target_sakoya_flags,  \* self.target_sakoya_flags
    reconnect_locks,      \* self.reconnect_locks: TRUE where a Lock object is stored, FALSE for None
    echo_cache,           \* self.echo_cache: set of keys <<target_index, str(echo)>>
    running,              \* self.running
    reloading,            \* self.reloading
    first_message,        \* self.first_message
    self_id,              \* self.self_id (0 is None)
    cws,                  \* state of this connection's client_ws: "OPEN" / "CLOSED"
    sock_state,           \* every target socket ever dialed: "unused", "open", "closed"
    mpc,                  \* position of start_proxy
    sent_targets,         \* effect of the last step: frames written to target sockets
    sent_client,          \* effect of the last step: frames written to the client socket
    saved,                \* effect of the last step: calls of database_manager.save_message
    lastop,               \* the handler the last step ran, with its inputs
    tasks,                \* the asyncio tasks of the connection's targets (recv loops, reconnects)
    startup,              \* history: the steps start_proxy has completed, in order
    nframes,              \* frames handled by the forwarding loops so far
    nreloads,             \* reload_targets calls so far
    reload_at,            \* position of a running reload_targets: <<phase, slot>>
    replayed_to           \* history: the target sockets a replay of first_message was written to

pvars == <<config, target_connections, target_sakoya_flags, reconnect_locks,
           echo_cache, running, reloading, first_message, self_id, cws,
           sock_state, mpc, sent_targets, sent_client, saved, lastop,
           tasks, startup, nframes, nreloads, reload_at, replayed_to>>

\* number of frames the client sends to the forwarding loop in SpecOrder
MaxClientFrames == 3

VARIABLES
    inbox,                \* frames the client sent that `async for message in self.client_ws` has not yielded
    client_seq,           \* number of frames the client has sent to the forwarding loop
    in_flight,            \* the running _process_client_message calls of the loop: [n, f, todo]
    delivered             \* history: per target slot, the numbers of the frames written to it, in order

ovars == <<inbox, client_seq, in_flight, delivered>>

\* number of connections in the configuration of the route table
NumConns == 2
\* number of ports a client endpoint can name
NumPorts == 2
\* number of changes of the stored configuration, and of reload_routes calls
MaxRouteReloads == 2

VARIABLES
    listener_class,       \* the class that runs: "UnifiedProxyServer" / "UnifiedHttpWsServer"
    connections_config,   \* config_manager.get_connections_config(): per connection_id its entry
    route_map,            \* self.route_map: set of <<port, path, connection_id>>
    connection_configs,   \* UnifiedProxyServer.connection_configs: the ids with a stored config
    port_servers,         \* the _start_port_server tasks: [port, st]
    rt_count,             \* <<changes of the stored configuration, reload_routes calls>> so far
    rt_last               \* the last step of the listener, with its inputs and what it did

rvars == <<listener_class, connections_config, route_map, connection_configs,
           port_servers, rt_count, rt_last>>

\* number of segments of a message in SpecConvert
MaxSegs == 2
\* number of send() calls on the Sakoya adapter in SpecAdapter
MaxSends == 3
\* number of send() calls on the Sakoya adapter in SpecCache
MaxCacheSends == 102

VARIABLES
    message_cache,        \* SakoyaWebSocketAdapter._message_cache: sequence of [id, message], oldest first
    ad_count,             \* send() calls on the adapter so far
    ad_last,              \* the last send(): its frame, what was written (kind) and the message written
    conv                  \* SakowaConverter: an event, its MessageReceive and the event made from that

avars == <<message_cache, ad_count, ad_last, conv>>

MaxVerifies == 4
MaxTicks == 3

VARIABLES
    database_manager,     \* AuthManager.database_manager is set
    valid_keys,           \* AuthManager._valid_keys: set of [key, bot_id, expires_at]
    failed_attempts,      \* failed attempts per bot (_failed_attempts or auth_status.failed_attempts)
    is_banned,            \* bots with auth_status.is_banned
    is_authenticated,     \* bots with auth_status.is_authenticated
    clock,                \* time.time()
    auth_count,           \* verify_key calls so far
    auth_last             \* the last command: [op, bot, key, case, success, answer] and, per bot,
                          \* streak: its failed verifications since its last successful one
                          \* (prior: the streak of the bot before the command)

uvars == <<database_manager, valid_keys, failed_attempts, is_banned, is_authenticated,
           clock, auth_count, auth_last>>

BurstLen == 95
MaxEchoRecords == 103
MaxEchoTicks == 3

VARIABLES
    echo_ts,              \* self.echo_cache of the purge model: set of [key, create_timestamp]
    ec_count,             \* _construct_echo_info calls so far
    ec_clock,             \* datetime.now().timestamp()
    ec_last               \* the last call: the cache before it, its key, the time, the next new key

MaxSkFrames == 4

VARIABLES
    sk_inbox,             \* frames the Sakoya target sent that self._ws.recv() has not returned
    sk_count,             \* frames the Sakoya target has sent
    sk_loop,              \* the `async for message in target_ws` over the adapter: "running" / "ended"
    sk_yielded,           \* what the loop body was given, in order: [n, form]
    sk_last               \* the last __anext__: the frame taken and its outcome

skvars == <<sk_inbox, sk_count, sk_loop, sk_yielded, sk_last>>

evars == <<echo_ts, ec_count, ec_clock, ec_last, skvars>>

\* the state of the specifications added to the first three
xvars == <<ovars, rvars, avars, uvars, evars>>

RoutesAtRest ==
    /\ listener_class = "none"
    /\ connections_config = <<>>
    /\ route_map = {}
    /\ connection_configs = {}
    /\ port_servers = <<>>
    /\ rt_count = <<0, 0>>
    /\ rt_last = "none"

OrderAtRest ==
    /\ inbox = <<>>
    /\ client_seq = 0
    /\ in_flight = <<>>
    /\ delivered = <<>>

AdapterAtRest ==
    /\ message_cache = <<>>
    /\ ad_count = 0
    /\ ad_last = "none"
    /\ conv = "none"

AuthAtRest ==
    /\ database_manager = FALSE
    /\ valid_keys = {}
    /\ failed_attempts = <<>>
    /\ is_banned = {}
    /\ is_authenticated = {}
    /\ clock = 0
    /\ auth_count = 0
    /\ auth_last = "none"

RecvAtRest ==
    /\ sk_inbox = <<>>
    /\ sk_count = 0
    /\ sk_loop = "none"
    /\ sk_yielded = <<>>
    /\ sk_last = "none"

EchoAtRest ==
    /\ echo_ts = {}
    /\ ec_count = 0
    /\ ec_clock = 0
    /\ ec_last = "none"
    /\ RecvAtRest

XAtRest == OrderAtRest /\ RoutesAtRest /\ AdapterAtRest /\ AuthAtRest /\ EchoAtRest

Accepts == 1..NumAccepts

\* The listener specification keeps the ProxyConnection fields of the other
\* specifications at rest, and the other way round.
ConnAtRest ==
    /\ config = <<>>
    /\ target_connections = <<>>
    /\ target_sakoya_flags = <<>>
    /\ reconnect_locks = <<>>
    /\ echo_cache = {}
    /\ running = FALSE
    /\ reloading = FALSE
    /\ first_message = "none"
    /\ self_id = 0
    /\ cws = "OPEN"
    /\ sock_state = <<>>
    /\ mpc = "none"
    /\ sent_targets = {}
    /\ sent_client = {}
    /\ saved = {}
    /\ lastop = "none"
    /\ tasks = <<>>
    /\ startup = <<>>
    /\ nframes = 0
    /\ nreloads = 0
    /\ reload_at = <<"idle", 0>>
    /\ replayed_to = {}

ListenerAtRest ==
    /\ server = "none"
    /\ hpc = <<>>
    /\ client_state = <<>>
    /\ close_code = <<>>
    /\ active_connections = 0
    /\ connection_locks = 0
    /\ conn_running = <<>>
    /\ old_conn = <<>>
    /\ dup_accept = <<>>
    /\ served = <<>>

\* websockets' State.OPEN is 1 (proxy_server.py:109 compares state with 1)
IsOpen(a) == client_state[a] = "OPEN"

\* proxy_server.py:103-109: an entry exists and its client socket is OPEN
OldAlive == active_connections # 0 /\ IsOpen(active_connections)

InitListener ==
    /\ server \in {"ProxyServer", "UnifiedProxyServer"}
    /\ hpc = [a \in Accepts |-> "idle"]
    /\ client_state = [a \in Accepts |-> "NEW"]
    /\ close_code = [a \in Accepts |-> "none"]
    /\ active_connections = 0
    /\ connection_locks = 0
    /\ conn_running = [a \in Accepts |-> FALSE]
    /\ old_conn = [a \in Accepts |-> 0]
    /\ dup_accept = [a \in Accepts |-> FALSE]
    /\ served = [a \in Accepts |-> FALSE]
    /\ ConnAtRest
    /\ XAtRest

\* ProxyServer.connection_handler up to `async with lock`: the handler task
\* starts for a freshly accepted socket and queues for the lock.
PSAccept(a) ==
    /\ server = "ProxyServer"
    /\ hpc[a] = "idle"
    /\ hpc' = [hpc EXCEPT ![a] = "wait_lock"]
    /\ client_state' = [client_state EXCEPT ![a] = "OPEN"]
    /\ dup_accept' = [dup_accept EXCEPT ![a] = OldAlive]
    /\ UNCHANGED <<server, close_code, active_connections, connection_locks,
                   conn_running, old_conn, served>>
    /\ UNCHANGED <<pvars, xvars>>

\* Body of `async with self.connection_locks[connection_id]` up to its first
\* await: the duplicate check, and either the 1008 rejection or the creation
\* of the ProxyConnection by _handle_client_connection (still inside the lock).
PSLocked(a) ==
    /\ server = "ProxyServer"
    /\ hpc[a] = "wait_lock"
    /\ connection_locks = 0
    /\ IF OldAlive
       THEN \* await ws.close(1008, "Connection already exists"); return
            /\ close_code' = [close_code EXCEPT ![a] = "1008"]
            /\ client_state' = [client_state EXCEPT ![a] = "CLOSED"]
            /\ hpc' = [hpc EXCEPT ![a] = "done"]
            /\ UNCHANGED <<active_connections, connection_locks, conn_running, served>>
       ELSE \* stale entry deleted, ProxyConnection created, start_proxy awaited
            /\ active_connections' = a
            /\ connection_locks' = a
            /\ conn_running' = [conn_running EXCEPT ![a] = TRUE]
            /\ served' = [served EXCEPT ![a] = TRUE]
            /\ hpc' = [hpc EXCEPT ![a] = "serving"]
            /\ UNCHANGED <<close_code, client_state>>
    /\ UNCHANGED <<server, old_conn, dup_accept>>
    /\ UNCHANGED <<pvars, xvars>>

\* start_proxy returns (client gone, startup failure, or stop() by someone
\* else): ProxyConnection.stop() closes the client socket, then the finally
\* block of _handle_client_connection deletes the entry and the lock is released.
PSFinish(a) ==
    /\ server = "ProxyServer"
    /\ hpc[a] = "serving"
    /\ conn_running' = [conn_running EXCEPT ![a] = FALSE]
    /\ client_state' = [client_state EXCEPT ![a] = "CLOSED"]
    /\ active_connections' = 0
    /\ connection_locks' = 0
    /\ hpc' = [hpc EXCEPT ![a] = "done"]
    /\ UNCHANGED <<server, close_code, old_conn, dup_accept, served>>
    /\ UNCHANGED <<pvars, xvars>>

\* UnifiedProxyServer._handle_client_connection up to its first await: an
\* existing entry is stopped (stop() sets running = False at once), otherwise
\* the ProxyConnection is created and registered.
USAccept(a) ==
    /\ server = "UnifiedProxyServer"
    /\ hpc[a] = "idle"
    /\ client_state' = [client_state EXCEPT ![a] = "OPEN"]
    /\ dup_accept' = [dup_accept EXCEPT ![a] = OldAlive]
    /\ IF active_connections # 0
       THEN /\ old_conn' = [old_conn EXCEPT ![a] = active_connections]
            /\ conn_running' = [conn_running EXCEPT ![active_connections] = FALSE]
            /\ hpc' = [hpc EXCEPT ![a] = "stop_old"]
            /\ UNCHANGED <<active_connections, served>>
       ELSE /\ active_connections' = a
            /\ conn_running' = [conn_running EXCEPT ![a] = TRUE]
            /\ served' = [served EXCEPT ![a] = TRUE]
            /\ hpc' = [hpc EXCEPT ![a] = "serving"]
            /\ UNCHANGED old_conn
    /\ UNCHANGED <<server, close_code, connection_locks>>
    /\ UNCHANGED <<pvars, xvars>>

\* `await old.stop()` completes (the old client socket is closed), then
\* `await asyncio.sleep(1)`.
USStopOld(a) ==
    /\ server = "UnifiedProxyServer"
    /\ hpc[a] = "stop_old"
    /\ client_state' = [client_state EXCEPT ![old_conn[a]] = "CLOSED"]
    /\ hpc' = [hpc EXCEPT ![a] = "sleep"]
    /\ UNCHANGED <<server, close_code, active_connections, connection_locks,
                   conn_running, old_conn, dup_accept, served>>
    /\ UNCHANGED <<pvars, xvars>>

\* After the sleep: the new ProxyConnection is created and stored under the
\* connection_id, then start_proxy is awaited.
USRegister(a) ==
    /\ server = "UnifiedProxyServer"
    /\ hpc[a] = "sleep"
    /\ active_connections' = a
    /\ conn_running' = [conn_running EXCEPT ![a] = TRUE]
    /\ served' = [served EXCEPT ![a] = TRUE]
    /\ hpc' = [hpc EXCEPT ![a] = "serving"]
    /\ UNCHANGED <<server, client_state, close_code, connection_locks,
                   old_conn, dup_accept>>
    /\ UNCHANGED <<pvars, xvars>>

\* start_proxy returns; its finally calls stop(); the finally block of
\* _handle_client_connection deletes whatever entry the connection_id has.
USFinish(a) ==
    /\ server = "UnifiedProxyServer"
    /\ hpc[a] = "serving"
    /\ conn_running' = [conn_running EXCEPT ![a] = FALSE]
    /\ client_state' = [client_state EXCEPT ![a] = "CLOSED"]
    /\ active_connections' = 0
    /\ hpc' = [hpc EXCEPT ![a] = "done"]
    /\ UNCHANGED <<server, close_code, connection_locks, old_conn,
                   dup_accept, served>>
    /\ UNCHANGED <<pvars, xvars>>

\* The peer closes its socket (the handler task notices later).
ClientClose(a) ==
    /\ client_state[a] = "OPEN"
    /\ client_state' = [client_state EXCEPT ![a] = "CLOSED"]
    /\ UNCHANGED <<server, hpc, close_code, active_connections, connection_locks,
                   conn_running, old_conn, dup_accept, served>>
    /\ UNCHANGED <<pvars, xvars>>

NextListener ==
    \E a \in Accepts :
        \/ ClientClose(a)
        \/ PSAccept(a)
        \/ PSLocked(a)
        \/ PSFinish(a)
        \/ USAccept(a)
        \/ USStopOld(a)
        \/ USRegister(a)
        \/ USFinish(a)

SpecListener == InitListener /\ [][NextListener]_lvars

(***************************************************************************)
(* C1: a client socket accepted while a Proxy Connection of the same       *)
(* connection_id exists with an OPEN client socket is never served: it is  *)
(* closed with code 1008 (so of concurrent accepts only one is served).    *)
(***************************************************************************)
C1_DuplicateRejected ==
    \A a \in Accepts :
        dup_accept[a] =>
            /\ ~served[a]
            /\ (hpc[a] = "done" => close_code[a] = "1008")



(***************************************************************************)
(* ProxyConnection: frames, configuration and the message pipeline.        *)
(***************************************************************************)
Slots == 1..NumTargets
Socks == 1..MaxSockets

\* A target endpoint: a URL string, or an object with the optional keys
\* "disabled" and "sakoya_protocol" (both default to False).
Endpoints ==
    { [disabled |-> FALSE, sakoya |-> FALSE],
      [disabled |-> FALSE, sakoya |-> TRUE],
      [disabled |-> TRUE, sakoya |-> FALSE] }
Configs == [Slots -> Endpoints]

\* endpoint.get("disabled", False) of the endpoint at list index i-1
is_disabled(cfg, i) == cfg[i].disabled
\* endpoint.get("sakoya_protocol", False)
is_sakoya(cfg, i) == cfg[i].sakoya

(* Values of the "echo" key of a JSON frame:                                *)
(*   "absent" - no such key (dict.get gives None)                          *)
(*   "zero"   - the number 0                                               *)
(*   "empty"  - the empty string                                           *)
(*   "a"      - a non-empty string                                         *)
EchoVals == {"absent", "zero", "empty", "a"}

\* Python truthiness of message_data.get("echo")
Truthy(e) == e \notin {"absent", "zero", "empty"}

\* str(message_data.get("echo")): str(None) is "None", str(0) is "0"
StrOf(e) ==
    CASE e = "absent" -> "None"
      [] e = "zero"   -> "0"
      [] e = "empty"  -> ""
      [] OTHER        -> e

Frame(j, e, pt, act, st, sid) ==
    [json |-> j, echo |-> e, post_type |-> pt, action |-> act, status |-> st, self_id |-> sid]

NoFrame == Frame(FALSE, "absent", "", "", "", 0)

\* Frames the client socket can deliver: a non-JSON text, events, a frame
\* that only carries an action, and API responses (status / retcode) with an echo.
ClientFrames ==
    { Frame(FALSE, "absent", "", "", "", 0),
      Frame(TRUE, "absent", "message", "", "", 2),
      Frame(TRUE, "absent", "meta_event", "", "", 1),
      Frame(TRUE, "absent", "", "_connect", "", 0),
      Frame(TRUE, "a", "", "", "ok", 0),
      Frame(TRUE, "zero", "", "", "ok", 0),
      Frame(TRUE, "a", "", "", "failed", 0) }

\* Frames a target socket can deliver: a non-JSON text and send-style API
\* calls with the possible shapes of "echo".
TargetFrames ==
    { Frame(FALSE, "absent", "", "", "", 0),
      Frame(TRUE, "a", "", "send_group_msg", "", 0),
      Frame(TRUE, "zero", "", "send_group_msg", "", 0),
      Frame(TRUE, "empty", "", "send_group_msg", "", 0),
      Frame(TRUE, "absent", "", "send_group_msg", "", 0) }

\* What command_handler.handle_message and construct_reboot_message hand to
\* _process_target_message with target index 0: an API call without echo.
LocalFrame == Frame(TRUE, "absent", "", "send_group_msg", "", 0)

\* Outcomes of the external hooks: the pre- and post-processor may return None
\* ("drop"), the command handler may return a response (handled).
HookOutcomes == {"pass", "drop"}
HookCases ==
    { [pre |-> "drop", handled |-> FALSE, post |-> "pass"],
      [pre |-> "pass", handled |-> FALSE, post |-> "pass"],
      [pre |-> "pass", handled |-> TRUE, post |-> "pass"],
      [pre |-> "pass", handled |-> TRUE, post |-> "drop"] }

\* The command handler answers commands, which are message events; a frame
\* that is not JSON reaches no hook.
HooksFor(f) ==
    IF ~f.json THEN { h \in HookCases : h.pre = "pass" /\ ~h.handled }
    ELSE IF f.post_type = "message" THEN HookCases
    ELSE { h \in HookCases : ~h.handled }

\* The frames a client opens its session with: a lifecycle meta event, or a
\* frame that only carries the action _connect.
FirstFrames ==
    { Frame(TRUE, "absent", "meta_event", "", "", 1),
      Frame(TRUE, "absent", "", "_connect", "", 0) }

\* proxy_server.py:719-722
skip_sakoya(f) ==
    \/ f.action \in {"lifecycle", "_connect", "get_login_info", "get_status", "get_version_info"}
    \/ f.post_type = "meta_event"

\* _check_api_call_succ: the parsed event is an ApiResponse with status ok, retcode 0
check_api_call_succ(f) == f.status = "ok"

\* The loop `for idx in range(1, len(target_connections) + 1)` that looks for
\* the key f"{idx}_{echo_val}": the first index that has one, 0 if none has.
RECURSIVE LookupFrom(_, _, _, _)
LookupFrom(idx, n, estr, cache) ==
    IF idx > n THEN 0
    ELSE IF <<idx, estr>> \in cache THEN idx
    ELSE LookupFrom(idx + 1, n, estr, cache)

EchoLookup(estr, tc, cache) == LookupFrom(1, Len(tc), estr, cache)

\* _construct_echo_info: the cache after a frame of target_index was recorded.
\* (The purge of old entries needs a cache size that is a multiple of 100.)
construct_echo_info(f, target_index, cache) ==
    IF StrOf(f.echo) = "" THEN cache ELSE cache \cup {<<target_index, StrOf(f.echo)>>}

\* What _construct_echo_info returns is falsy exactly when str(echo) is "".
echo_info_falsy(f) == StrOf(f.echo) = ""

\* a fan-out loop that ends at the first slot without a socket
FanOutSlots_StopAtNil(f, tc, cfg, flags) ==
    { i \in 1..Len(tc) :
        /\ \A j \in 1..i : tc[j] # 0
        /\ ~(i <= Len(cfg) /\ is_disabled(cfg, i))
        /\ ~((i <= Len(flags) /\ flags[i]) /\ skip_sakoya(f)) }
\* The slots the fan-out loop of _process_client_message writes to
\* (proxy_server.py:727-749).
FanOutSlots(f, tc, cfg, flags) ==
    { i \in 1..Len(tc) :
        /\ tc[i] # 0
        /\ ~(i <= Len(cfg) /\ is_disabled(cfg, i))
        /\ ~((i <= Len(flags) /\ flags[i]) /\ skip_sakoya(f)) }

\* _process_target_message(message, target_index): the cache and the effects.
\* `post` is the outcome of the post-processing hook.
ProcessTarget(f, target_index, post, cache, client) ==
    IF ~f.json
    THEN [cache |-> cache, to_client |-> {}, saved |-> {}, raised |-> FALSE]
    ELSE [cache |-> construct_echo_info(f, target_index, cache),
          saved |-> IF echo_info_falsy(f) THEN {<<"SEND", "message_sent">>} ELSE {},
          to_client |-> IF post = "pass" /\ client = "OPEN"
                        THEN {<<target_index, f>>} ELSE {},
          \* client_ws.send raised ConnectionClosed, which is re-raised
          raised |-> post = "pass" /\ client # "OPEN"]

\* The part of _process_client_message that forwards (proxy_server.py:689-754):
\* the slots written to and the cache after the pop.
ForwardSlots(f, tc, cfg, flags, cache) ==
    IF Truthy(f.echo)
    THEN LET m == EchoLookup(StrOf(f.echo), tc, cache)
         IN  IF m > 0 /\ tc[m] # 0 THEN {m} ELSE {}
    ELSE FanOutSlots(f, tc, cfg, flags)

ForwardCache(f, tc, cache) ==
    IF Truthy(f.echo)
    THEN LET m == EchoLookup(StrOf(f.echo), tc, cache)
         IN  IF m > 0 THEN cache \ {<<m, StrOf(f.echo)>>} ELSE cache
    ELSE cache

\* a parse that takes every frame for JSON
Parses_Always(f) == TRUE
\* message_data = json.loads(message) returns: it raises JSONDecodeError otherwise
Parses(f) == f.json

\* _process_client_message(message). `pre` is the outcome of the preprocessing
\* hooks, `handled` whether command_handler.handle_message returned a response,
\* `post` the outcome of the post-processing of that response.
ProcessClient(f, pre, handled, post, tc, cfg, flags, cache, client, ss, sid) ==
    LET sid1 == IF Parses(f) /\ f.self_id # 0 THEN f.self_id ELSE sid
        nothing == [cache |-> cache, self_id |-> sid1, sent |-> {},
                    to_client |-> {}, saved |-> {}]
    IN
    IF ~Parses(f) \/ pre = "drop" THEN nothing
    ELSE
      LET sv == IF check_api_call_succ(f)
                THEN {<<"SEND", IF EchoLookup(StrOf(f.echo), tc, cache) > 0
                                THEN "message_sent" ELSE "empty">>}
                ELSE {<<"RECV", "frame">>}
          loc == IF handled THEN ProcessTarget(LocalFrame, 0, post, cache, client)
                 ELSE [cache |-> cache, to_client |-> {}, saved |-> {}, raised |-> FALSE]
          payload == IF handled THEN "null" ELSE "frame"
          slots == ForwardSlots(f, tc, cfg, flags, loc.cache)
      IN
      IF loc.raised
      THEN [cache |-> loc.cache, self_id |-> sid1, sent |-> {},
            to_client |-> {}, saved |-> sv \cup loc.saved]
      ELSE [cache |-> ForwardCache(f, tc, loc.cache),
            self_id |-> sid1,
            \* a write to a closed socket raises ConnectionClosed and delivers nothing
            sent |-> { <<i, tc[i], payload>> : i \in { j \in slots : ss[tc[j]] = "open" } },
            to_client |-> loc.to_client,
            saved |-> sv \cup loc.saved]


(***************************************************************************)
(* SpecRoute: the message pipeline of one ProxyConnection.  Every handler  *)
(* is one step; the frames and the outcomes of the external hooks and of   *)
(* the dials are the inputs.                                               *)
(***************************************************************************)

\* the lowest socket id not used yet, 0 when the model has none left
FreeSock(ss) ==
    IF \E s \in Socks : ss[s] = "unused"
    THEN CHOOSE s \in Socks : ss[s] = "unused" /\ \A r \in Socks : ss[r] = "unused" => s <= r
    ELSE 0

\* ws.close() on every socket a slot array holds
CloseAll(tc, ss) ==
    [s \in Socks |-> IF \E i \in 1..Len(tc) : tc[i] = s THEN "closed" ELSE ss[s]]

\* One task per target slot can be created by start_proxy and by every
\* reload_targets call: task (g * NumTargets + i) is the one made for slot i by
\* start_proxy (g = 0) or by the g-th reload.
TaskIds == 1..(NumTargets * (MaxReloads + 1))

(* A task of a target slot.  pc is its position:                           *)
(*   "unused"   - not created                                              *)
(*   "check"    - in the sleep(5) of _start_reconnect_with_delay, or in    *)
(*                _reconnect_target at the top of a near-phase iteration   *)
(*   "sleep"    - near phase, in sleep(3) before the dial                  *)
(*   "farcheck" - at the top of a far-phase iteration                      *)
(*   "farsleep" - far phase, in sleep(600) before the dial                 *)
(*   "replay"   - redial succeeded, about to process first_message again   *)
(*   "settle"   - in sleep(5) before the recv loop                         *)
(*   "recv"     - _forward_target_to_client, in `async for` over sock      *)
(*   "done"     - returned or cancelled                                    *)
(* attempt is the near-phase loop variable, far counts the far-phase dials *)
(* of the current run, sakoya is the is_sakoya the iteration computed,     *)
(* cancel tells that start_proxy holds the task in target_tasks.           *)
Task(pc, t, sock, attempt, far, sk, cancel) ==
    [pc |-> pc, t |-> t, sock |-> sock, attempt |-> attempt, far |-> far,
     sakoya |-> sk, cancel |-> cancel]

IdleTask(pc) == Task(pc, 0, 0, 0, 0, FALSE, FALSE)

\* ProxyConnection.__init__
InitConn ==
    /\ config \in Configs
    /\ target_connections = <<>>
    /\ target_sakoya_flags = [i \in Slots |-> is_sakoya(config, i)]
    /\ reconnect_locks = [i \in Slots |-> ~is_disabled(config, i)]
    /\ echo_cache = {}
    /\ running = FALSE
    /\ reloading = FALSE
    /\ first_message = NoFrame
    /\ self_id = 0
    /\ cws = "OPEN"
    /\ sock_state = [s \in Socks |-> "unused"]
    /\ mpc = "start"
    /\ sent_targets = {}
    /\ sent_client = {}
    /\ saved = {}
    /\ lastop = [op |-> "init", f |-> NoFrame, t |-> 0, hook |-> "none"]
    /\ tasks = [k \in TaskIds |-> IdleTask("unused")]
    /\ startup = <<>>
    /\ nframes = 0
    /\ nreloads = 0
    /\ reload_at = <<"idle", 0>>
    /\ replayed_to = {}

\* hook: "none", "drop" (the preprocessor returned None), "pass", "handled"
Op(op, f, t, hook) == [op |-> op, f |-> f, t |-> t, hook |-> hook]
HookOf(h) == IF h.pre = "drop" THEN "drop" ELSE IF h.handled THEN "handled" ELSE "pass"

\* `append` when the index is the next one, assignment otherwise
\* (proxy_server.py:392-395, 425-428)
SetSlot(tc, i, v) == IF i = Len(tc) + 1 THEN Append(tc, v) ELSE [tc EXCEPT ![i] = v]

\* _connect_to_target(endpoint, target_index) with dial outcome ok: the slot
\* array, the sockets and the socket returned (0 is None).  An index beyond
\* the next slot raises before any dial, and the handler's own assignment
\* `self.target_connections[index] = None` then raises IndexError (raised).
connect_to_target(t, ok, tc, ss) ==
    IF t > Len(tc) + 1
    THEN [tc |-> tc, ss |-> ss, sock |-> 0, raised |-> TRUE]
    ELSE IF ok /\ FreeSock(ss) # 0
         THEN [tc |-> SetSlot(tc, t, FreeSock(ss)),
               ss |-> [ss EXCEPT ![FreeSock(ss)] = "open"],
               sock |-> FreeSock(ss), raised |-> FALSE]
         ELSE [tc |-> SetSlot(tc, t, 0), ss |-> ss, sock |-> 0, raised |-> FALSE]

\* _connect_to_targets from endpoint i on: a disabled endpoint gets a None
\* placeholder, an enabled one is dialed (ok[i] is the outcome).  Wrapping a
\* dialed Sakoya socket executes
\* `from .sakoya_adapter import GscoreWebSocketAdapter`, a name sakoya_adapter
\* does not define: the ImportError leaves _connect_to_targets at that slot
\* (aborted), before it starts any reconnect task.
RECURSIVE ConnectFrom(_, _, _, _, _)
ConnectFrom(i, cfg, ok, tc, ss) ==
    IF i > Len(cfg) THEN [tc |-> tc, ss |-> ss, aborted |-> FALSE]
    ELSE IF is_disabled(cfg, i) THEN ConnectFrom(i + 1, cfg, ok, SetSlot(tc, i, 0), ss)
    ELSE LET r == connect_to_target(i, ok[i], tc, ss)
         IN  IF r.sock # 0 /\ is_sakoya(cfg, i)
             THEN [tc |-> r.tc, ss |-> r.ss, aborted |-> TRUE]
             ELSE ConnectFrom(i + 1, cfg, ok, r.tc, r.ss)

\* the possible outcomes of the dials of a configuration: only enabled
\* endpoints are dialed
DialOutcomes(cfg) ==
    { ok \in [Slots -> BOOLEAN] : \A i \in Slots : ok[i] => ~is_disabled(cfg, i) }

connect_to_targets(cfg, ok, ss) == ConnectFrom(1, cfg, ok, <<>>, ss)

NoEffects ==
    /\ sent_targets' = {}
    /\ sent_client' = {}
    /\ saved' = {}

\* ProxyConnection.stop(): running = False, every socket closed, slot array cleared.
StopConn ==
    /\ running' = FALSE
    /\ cws' = "CLOSED"
    /\ target_connections' = <<>>

\* start_proxy, `self.first_message = await self.client_ws.recv()`: the first
\* client frame is read and kept.
RouteFirst(f) ==
    /\ mpc = "start"
    /\ running' = TRUE
    /\ first_message' = f
    /\ mpc' = "dial"
    /\ startup' = Append(startup, "first")
    /\ lastop' = Op("first", f, 0, "none")
    /\ NoEffects
    /\ UNCHANGED <<config, target_connections, target_sakoya_flags, reconnect_locks,
                   echo_cache, reloading, self_id, cws, sock_state>>
    /\ UNCHANGED <<nframes, nreloads, reload_at, replayed_to>>
    /\ UNCHANGED <<tasks, lvars, xvars>>

\* start_proxy, `await self._connect_to_targets()`: the targets are dialed; an
\* exception leaves start_proxy through its finally, which calls stop().
RouteDial(ok) ==
    /\ mpc = "dial"
    /\ LET r == connect_to_targets(config, ok, sock_state)
       IN  IF r.aborted
           THEN /\ StopConn
                /\ sock_state' = CloseAll(r.tc, r.ss)
                /\ mpc' = "stopped"
           ELSE /\ target_connections' = r.tc
                /\ sock_state' = r.ss
                /\ mpc' = "replay"
                /\ UNCHANGED <<running, cws>>
    /\ startup' = Append(startup, "dial")
    /\ lastop' = Op("dial", NoFrame, 0, "none")
    /\ NoEffects
    /\ UNCHANGED <<config, target_sakoya_flags, reconnect_locks, echo_cache,
                   reloading, first_message, self_id>>
    /\ UNCHANGED <<nframes, nreloads, reload_at, replayed_to>>
    /\ UNCHANGED <<tasks, lvars, xvars>>

\* The effects of one _process_client_message(f) on the connection.
ClientMessage(f, pre, handled, post) ==
    LET r == ProcessClient(f, pre, handled, post, target_connections, config,
                           target_sakoya_flags, echo_cache, cws, sock_state, self_id)
    IN  /\ echo_cache' = r.cache
        /\ self_id' = r.self_id
        /\ sent_targets' = r.sent
        /\ sent_client' = r.to_client
        /\ saved' = r.saved

\* start_proxy: `await self._process_client_message(self.first_message)`
RouteReplay(h) ==
    /\ mpc = "replay"
    /\ ClientMessage(first_message, h.pre, h.handled, h.post)
    /\ replayed_to' = replayed_to \cup { x[2] : x \in sent_targets' }
    /\ lastop' = Op("replay", first_message, 0, HookOf(h))
    /\ mpc' = "reboot"
    /\ UNCHANGED <<config, target_connections, target_sakoya_flags, reconnect_locks,
                   running, reloading, first_message, cws, sock_state>>
    /\ UNCHANGED <<nframes, nreloads, reload_at>>
    /\ startup' = Append(startup, "replay")
    /\ UNCHANGED <<tasks, lvars, xvars>>

\* RouteReboot with the reboot notification also written to the targets
RouteReboot_ToTargets(post) ==
    /\ mpc = "reboot"
    /\ LET r == ProcessTarget(LocalFrame, 0, post, echo_cache, cws)
       IN  /\ echo_cache' = r.cache
           /\ sent_client' = r.to_client
           /\ saved' = r.saved
           /\ sent_targets' = { <<i, target_connections[i], "frame">> :
                                  i \in FanOutSlots(LocalFrame, target_connections,
                                                    config, target_sakoya_flags) }
    /\ lastop' = Op("reboot", LocalFrame, 0, "none")
    /\ mpc' = "forward"
    /\ UNCHANGED <<config, target_connections, target_sakoya_flags, reconnect_locks,
                   running, reloading, first_message, self_id, cws, sock_state>>
    /\ UNCHANGED <<nframes, nreloads, reload_at, replayed_to>>
    /\ startup' = Append(startup, "reboot")
    /\ UNCHANGED <<tasks, lvars, xvars>>

\* send_reboot_message: what construct_reboot_message returns goes through
\* _process_target_message with target index 0; then the forwarding tasks start.
RouteReboot(post) ==
    /\ mpc = "reboot"
    /\ LET r == ProcessTarget(LocalFrame, 0, post, echo_cache, cws)
       IN  /\ echo_cache' = r.cache
           /\ sent_client' = r.to_client
           /\ saved' = r.saved
           /\ sent_targets' = {}
    /\ lastop' = Op("reboot", LocalFrame, 0, "none")
    /\ mpc' = "forward"
    /\ UNCHANGED <<config, target_connections, target_sakoya_flags, reconnect_locks,
                   running, reloading, first_message, self_id, cws, sock_state>>
    /\ UNCHANGED <<nframes, nreloads, reload_at, replayed_to>>
    /\ startup' = Append(startup, "reboot")
    /\ UNCHANGED <<tasks, lvars, xvars>>

\* _forward_client_to_targets: one frame of the client-recv loop
RouteClientFrame(f, h) ==
    /\ mpc = "forward"
    /\ nframes < MaxFrames
    /\ nframes' = nframes + 1 /\ UNCHANGED <<nreloads, reload_at, replayed_to>>
    /\ cws = "OPEN"
    /\ ClientMessage(f, h.pre, h.handled, h.post)
    /\ lastop' = Op("client", f, 0, HookOf(h))
    /\ UNCHANGED <<config, target_connections, target_sakoya_flags, reconnect_locks,
                   running, reloading, first_message, cws, sock_state, mpc>>
    /\ UNCHANGED startup
    /\ UNCHANGED <<tasks, lvars, xvars>>

\* _forward_target_to_client: one frame of the recv loop of the socket in slot t
RouteTargetFrame(t, f, post) ==
    /\ mpc = "forward"
    /\ nframes < MaxFrames
    /\ nframes' = nframes + 1 /\ UNCHANGED <<nreloads, reload_at, replayed_to>>
    /\ cws = "OPEN"
    /\ t <= Len(target_connections)
    /\ target_connections[t] # 0
    /\ sock_state[target_connections[t]] = "open"
    /\ LET r == ProcessTarget(f, t, post, echo_cache, cws)
       IN  /\ echo_cache' = r.cache
           /\ sent_client' = r.to_client
           /\ saved' = r.saved
           /\ sent_targets' = {}
    /\ lastop' = Op("target", f, t, "none")
    /\ UNCHANGED <<config, target_connections, target_sakoya_flags, reconnect_locks,
                   running, reloading, first_message, self_id, cws, sock_state, mpc>>
    /\ UNCHANGED startup
    /\ UNCHANGED <<tasks, lvars, xvars>>

\* A target closes its socket; the slot keeps the reference.
RouteTargetClosed(s) ==
    /\ mpc = "forward"
    /\ sock_state[s] = "open"
    /\ sock_state' = [sock_state EXCEPT ![s] = "closed"]
    /\ lastop' = Op("closed", NoFrame, 0, "none")
    /\ NoEffects
    /\ UNCHANGED <<config, target_connections, target_sakoya_flags, reconnect_locks,
                   echo_cache, running, reloading, first_message, self_id, cws, mpc>>
    /\ UNCHANGED <<nframes, nreloads, reload_at, replayed_to>>
    /\ UNCHANGED startup
    /\ UNCHANGED <<tasks, lvars, xvars>>

\* _reconnect_target, one attempt whose dial succeeds (proxy_server.py:516-575):
\* the endpoint is enabled and has a lock, the client is alive; the new socket
\* is stored in the slot; a Sakoya endpoint then fails on the import of the
\* adapter, any other gets first_message processed again.
RouteReconnected(t, h) ==
    /\ mpc = "forward"
    /\ running /\ cws = "OPEN"
    /\ t <= Len(config) /\ ~is_disabled(config, t)
    /\ t <= Len(reconnect_locks) /\ reconnect_locks[t]
    /\ t <= Len(target_connections)
    /\ IF target_connections[t] = 0 THEN TRUE
       ELSE sock_state[target_connections[t]] = "closed"
    /\ FreeSock(sock_state) # 0
    /\ LET s == FreeSock(sock_state)
           tc1 == [target_connections EXCEPT ![t] = s]
           ss1 == [sock_state EXCEPT ![s] = "open"]
       IN  /\ target_connections' = tc1
           /\ sock_state' = ss1
           /\ IF is_sakoya(config, t)
              THEN /\ NoEffects
                   /\ UNCHANGED <<echo_cache, self_id>>
              ELSE LET r == ProcessClient(first_message, h.pre, h.handled, h.post, tc1, config,
                                          target_sakoya_flags, echo_cache, cws, ss1, self_id)
                   IN  /\ echo_cache' = r.cache
                       /\ self_id' = r.self_id
                       /\ sent_targets' = r.sent
                       /\ sent_client' = r.to_client
                       /\ saved' = r.saved
    /\ replayed_to' = replayed_to \cup { x[2] : x \in sent_targets' }
    /\ lastop' = Op("reconnected", first_message, t, HookOf(h))
    /\ UNCHANGED <<config, target_sakoya_flags, reconnect_locks, running, reloading,
                   first_message, cws, mpc>>
    /\ UNCHANGED <<nframes, nreloads, reload_at>>
    /\ UNCHANGED startup
    /\ UNCHANGED <<tasks, lvars, xvars>>

\* reload_targets(new_config) run to its end: the old sockets are closed, the
\* slot array and the Sakoya flags are cleared, the locks are rebuilt and
\* _connect_to_targets dials the new endpoints.
RouteReload(new_config, ok) ==
    /\ mpc = "forward"
    /\ nreloads < MaxReloads /\ nframes < MaxFrames
    /\ nreloads' = nreloads + 1 /\ UNCHANGED <<nframes, reload_at, replayed_to>>
    /\ LET ss0 == CloseAll(target_connections, sock_state)
           r == connect_to_targets(new_config, ok, ss0)
       IN  /\ target_connections' = r.tc
           /\ sock_state' = r.ss
    /\ config' = new_config
    /\ target_sakoya_flags' = <<>>
    /\ reconnect_locks' = [i \in Slots |-> ~is_disabled(new_config, i)]
    /\ reloading' = FALSE
    /\ lastop' = Op("reload", NoFrame, 0, "none")
    /\ NoEffects
    /\ UNCHANGED <<echo_cache, running, first_message, self_id, cws, mpc>>
    /\ UNCHANGED startup
    /\ UNCHANGED <<tasks, lvars, xvars>>

\* The client disconnects: the recv of the first frame raises, or the
\* client-recv loop ends, and start_proxy runs stop() in its finally.
RouteStop ==
    /\ mpc \in {"start", "replay", "reboot", "forward"}
    /\ StopConn
    /\ sock_state' = CloseAll(target_connections, sock_state)
    /\ mpc' = "stopped"
    /\ lastop' = Op("stop", NoFrame, 0, "none")
    /\ NoEffects
    /\ UNCHANGED <<config, target_sakoya_flags, reconnect_locks, echo_cache,
                   reloading, first_message, self_id>>
    /\ UNCHANGED <<nframes, nreloads, reload_at, replayed_to>>
    /\ UNCHANGED startup
    /\ UNCHANGED <<tasks, lvars, xvars>>

InitRoute == InitConn /\ ListenerAtRest /\ XAtRest

NextRoute ==
    \/ \E f \in FirstFrames : RouteFirst(f)
    \/ \E ok \in DialOutcomes(config) : RouteDial(ok)
    \/ \E h \in HooksFor(first_message) :
          \/ RouteReplay(h)
          \/ \E t \in Slots : RouteReconnected(t, h)
    \/ \E f \in ClientFrames : \E h \in HooksFor(f) : RouteClientFrame(f, h)
    \/ \E post \in HookOutcomes :
          \/ RouteReboot(post)
          \/ \E t \in Slots, f \in TargetFrames : RouteTargetFrame(t, f, post)
    \/ \E s \in Socks : RouteTargetClosed(s)
    \/ \E c \in Configs : \E ok \in DialOutcomes(c) : RouteReload(c, ok)
    \/ RouteStop

SpecRoute == InitRoute /\ [][NextRoute]_pvars

(***************************************************************************)
(* SpecStartup: start_proxy and its forwarding loops over the sockets of   *)
(* the startup dial, without reconnects and hot reloads.                   *)
(***************************************************************************)

NextStartup ==
    \/ \E f \in FirstFrames : RouteFirst(f)
    \/ \E ok \in DialOutcomes(config) : RouteDial(ok)
    \/ \E h \in HooksFor(first_message) : RouteReplay(h)
    \/ \E f \in ClientFrames : \E h \in HooksFor(f) : RouteClientFrame(f, h)
    \/ \E post \in HookOutcomes :
          \/ RouteReboot(post)
          \/ \E t \in Slots, f \in TargetFrames : RouteTargetFrame(t, f, post)
    \/ \E s \in Socks : RouteTargetClosed(s)
    \/ RouteStop

SpecStartup == InitRoute /\ [][NextStartup]_pvars

(***************************************************************************)
(* SpecConn: the tasks of one ProxyConnection: the recv loop of every      *)
(* target socket, the reconnect procedure, reload_targets and stop.  The   *)
(* hooks let every frame through; a step runs a task from one await to the *)
(* next.  The configurations have their endpoints after the first one      *)
(* disabled, so the tasks are those of the first slot.                     *)
(***************************************************************************)

\* the configurations of the task specifications
OneTargetConfigs == { c \in Configs : \A i \in Slots : i > 1 => is_disabled(c, i) }

InitTasks == InitRoute /\ config \in OneTargetConfigs

\* a near phase that gives up one attempt early
NearAttempts_Short == 40 - 1
\* number of near-phase attempts, `for attempt in range(40)`
NearAttempts == 40
\* number of failed dials of one reconnect run in SpecConn
MaxFails == 1
\* number of far-phase dials of one reconnect run
MaxFarAttempts == 2
\* number of frames the recv loops of the task specifications handle
MaxTaskFrames == 1

\* the frame a target sends in the task specifications
TaskFrame == Frame(TRUE, "a", "", "send_group_msg", "", 0)

\* the task start_proxy (g = 0) or the g-th reload creates for slot i
TaskFor(g, i) == g * NumTargets + i

\* The tasks created over the slot array tc (proxy_server.py:299-305, 466-468,
\* 1000-1004): a recv loop for every socket, and, when _connect_to_targets ran
\* to its end, a delayed reconnect for every enabled endpoint whose dial failed.
SpawnTasks(tk, g, tc, cfg, cancel) ==
    [k \in TaskIds |->
        IF \E i \in 1..Len(tc) : k = TaskFor(g, i)
        THEN LET i == CHOOSE i \in 1..Len(tc) : k = TaskFor(g, i)
             IN  IF tc[i] # 0 THEN Task("recv", i, tc[i], 0, 0, FALSE, cancel)
                 ELSE IF ~is_disabled(cfg, i) THEN Task("check", i, 0, 0, 0, FALSE, FALSE)
                 ELSE tk[k]
        ELSE tk[k]]

\* start_proxy from the first client frame to the creation of the forwarding
\* tasks (proxy_server.py:258-305), run without another task in between.
ConnStart(f, ok) ==
    /\ mpc = "start"
    /\ first_message' = f
    /\ LET r == connect_to_targets(config, ok, sock_state)
       IN  IF r.aborted
           THEN /\ StopConn
                /\ sock_state' = CloseAll(r.tc, r.ss)
                /\ mpc' = "stopped"
                /\ UNCHANGED <<tasks, echo_cache, self_id, replayed_to>>
           ELSE LET c == ProcessClient(f, "pass", FALSE, "pass", r.tc, config,
                                       target_sakoya_flags, echo_cache, cws, r.ss, self_id)
                    b == ProcessTarget(LocalFrame, 0, "pass", c.cache, cws)
                IN  /\ running' = TRUE
                    /\ target_connections' = r.tc
                    /\ sock_state' = r.ss
                    /\ echo_cache' = b.cache
                    /\ self_id' = c.self_id
                    /\ tasks' = SpawnTasks(tasks, 0, r.tc, config, TRUE)
                    /\ mpc' = "forward"
                    /\ replayed_to' = replayed_to \cup { x[2] : x \in c.sent }
                    /\ UNCHANGED cws
    /\ lastop' = Op("start", f, 0, "none")
    /\ NoEffects
    /\ UNCHANGED <<config, target_sakoya_flags, reconnect_locks, reloading>>
    /\ UNCHANGED <<startup, nframes, nreloads, reload_at>>
    /\ UNCHANGED <<lvars, xvars>>

\* what a task step leaves alone
TaskFrame_Unchanged ==
    /\ UNCHANGED <<config, target_sakoya_flags, reconnect_locks, running, reloading,
                   first_message, cws, mpc>>
    /\ UNCHANGED <<startup, nreloads, reload_at>>
    /\ UNCHANGED <<lvars, xvars>>

\* _reconnect_target, the top of a near-phase iteration up to `await
\* asyncio.sleep(3)` (proxy_server.py:516-550): after NearAttempts iterations
\* the far phase starts; the procedure returns when the index is out of
\* range, the endpoint is disabled, its lock is None or the client is gone.
RcCheck(k) ==
    /\ tasks[k].pc = "check"
    /\ LET t == tasks[k].t
       IN  tasks' =
             IF tasks[k].attempt >= NearAttempts
             THEN [tasks EXCEPT ![k].pc = "farcheck"]
             ELSE IF \/ t > Len(config)
                     \/ is_disabled(config, t)
                     \/ t > Len(reconnect_locks)
                     \/ ~reconnect_locks[t]
                     \/ ~running
                     \/ cws # "OPEN"
                  THEN [tasks EXCEPT ![k] = IdleTask("done")]
                  ELSE [tasks EXCEPT ![k].pc = "sleep", ![k].sakoya = is_sakoya(config, t)]
    /\ lastop' = Op("check", NoFrame, tasks[k].t, "none")
    /\ NoEffects
    /\ UNCHANGED <<target_connections, sock_state, echo_cache, self_id, nframes>>
    /\ TaskFrame_Unchanged /\ UNCHANGED replayed_to

\* The dial of a reconnect iteration and what follows it up to the next await
\* (proxy_server.py:551-575, 615-635): _connect_to_target stores the socket (or
\* None) in the slot; for a Sakoya endpoint the import of the adapter raises
\* and the iteration ends as a failed one; otherwise the slot keeps the socket
\* and first_message is about to be processed again.  `next` is where the loop
\* goes on after a failed iteration.
Redial(k, ok, next) ==
    LET t == tasks[k].t
        r == connect_to_target(t, ok, target_connections, sock_state)
    IN  /\ target_connections' = r.tc
        /\ sock_state' = r.ss
        /\ tasks' = IF r.sock # 0 /\ ~tasks[k].sakoya
                    THEN [tasks EXCEPT ![k].pc = "replay", ![k].sock = r.sock]
                    ELSE [tasks EXCEPT ![k] = next]
        /\ lastop' = Op("redial", NoFrame, t,
                        IF r.raised THEN "range" ELSE IF r.sock # 0 THEN "ok" ELSE "fail")
        /\ NoEffects
        /\ UNCHANGED <<echo_cache, self_id, nframes>>
        /\ TaskFrame_Unchanged /\ UNCHANGED replayed_to

\* near phase: the sleep(3) is over; maxfail bounds the failed dials of a run
RcDial(k, ok, maxfail) ==
    /\ tasks[k].pc = "sleep"
    /\ (ok /\ FreeSock(sock_state) # 0) \/ tasks[k].attempt < maxfail
    /\ Redial(k, ok, [tasks[k] EXCEPT !.pc = "check", !.attempt = tasks[k].attempt + 1])

\* _reconnect_target, the top of a far-phase iteration up to `await
\* asyncio.sleep(600)` (proxy_server.py:590-614)
RcFarCheck(k) ==
    /\ tasks[k].pc = "farcheck"
    /\ LET t == tasks[k].t
       IN  tasks' =
             IF \/ ~running
                \/ (t <= Len(config) /\ is_disabled(config, t))
                \/ cws # "OPEN"
                \/ t > Len(config)
             THEN [tasks EXCEPT ![k] = IdleTask("done")]
             ELSE [tasks EXCEPT ![k].pc = "farsleep", ![k].sakoya = is_sakoya(config, t)]
    /\ lastop' = Op("farcheck", NoFrame, tasks[k].t, "none")
    /\ NoEffects
    /\ UNCHANGED <<target_connections, sock_state, echo_cache, self_id, nframes>>
    /\ TaskFrame_Unchanged /\ UNCHANGED replayed_to

\* far phase: the sleep(600) is over
RcFarDial(k, ok) ==
    /\ tasks[k].pc = "farsleep"
    /\ tasks[k].far < MaxFarAttempts
    /\ Redial(k, ok, [tasks[k] EXCEPT !.pc = "farcheck", !.far = tasks[k].far + 1])

\* `await self._process_client_message(self.first_message)` after a redial;
\* a Sakoya endpoint then starts its recv loop, any other sleeps 5 s first.
RcReplay(k) ==
    /\ tasks[k].pc = "replay"
    /\ ClientMessage(first_message, "pass", FALSE, "pass")
    /\ tasks' = [tasks EXCEPT ![k].pc = IF tasks[k].sakoya THEN "recv" ELSE "settle"]
    /\ replayed_to' = replayed_to \cup { x[2] : x \in sent_targets' }
    /\ lastop' = Op("replayed", first_message, tasks[k].t, "pass")
    /\ UNCHANGED <<target_connections, sock_state, nframes>>
    /\ TaskFrame_Unchanged

\* the sleep(5) after the replay is over: _forward_target_to_client starts
RcSettle(k) ==
    /\ tasks[k].pc = "settle"
    /\ tasks' = [tasks EXCEPT ![k].pc = "recv"]
    /\ lastop' = Op("settled", NoFrame, tasks[k].t, "none")
    /\ NoEffects
    /\ UNCHANGED <<target_connections, sock_state, echo_cache, self_id, nframes>>
    /\ TaskFrame_Unchanged /\ UNCHANGED replayed_to

\* what _forward_target_to_client does when ConnectionClosed reaches it
\* (proxy_server.py:488-494): nothing while reloading, else _reconnect_target
AfterClosed(task) ==
    IF reloading THEN IdleTask("done")
    ELSE [task EXCEPT !.pc = "check", !.sock = 0, !.attempt = 0, !.far = 0]

\* _forward_target_to_client: the recv loop gets a frame from its socket; a
\* ConnectionClosed of the write to the client is handled like a closed target
RecvFrame(k) ==
    /\ tasks[k].pc = "recv"
    /\ sock_state[tasks[k].sock] = "open"
    /\ nframes < MaxTaskFrames
    /\ nframes' = nframes + 1
    /\ LET r == ProcessTarget(TaskFrame, tasks[k].t, "pass", echo_cache, cws)
       IN  /\ echo_cache' = r.cache
           /\ sent_client' = r.to_client
           /\ saved' = r.saved
           /\ sent_targets' = {}
           /\ tasks' = IF r.raised THEN [tasks EXCEPT ![k] = AfterClosed(tasks[k])]
                       ELSE tasks
    /\ lastop' = Op("target", TaskFrame, tasks[k].t, "none")
    /\ UNCHANGED <<target_connections, sock_state, self_id>>
    /\ TaskFrame_Unchanged /\ UNCHANGED replayed_to

\* _forward_target_to_client: the socket of the recv loop is closed.  The
\* iteration raises ConnectionClosed (how = "raise"), or it just ends, as the
\* iteration over a socket closed with a normal close code does and as
\* SakoyaWebSocketAdapter.__anext__ does for every exception (how = "end").
RecvClosed(k, how) ==
    /\ tasks[k].pc = "recv"
    /\ sock_state[tasks[k].sock] = "closed"
    /\ tasks' = [tasks EXCEPT ![k] = IF how = "raise" THEN AfterClosed(tasks[k])
                                      ELSE IdleTask("done")]
    /\ lastop' = Op("recv_end", NoFrame, tasks[k].t, how)
    /\ NoEffects
    /\ UNCHANGED <<target_connections, sock_state, echo_cache, self_id, nframes>>
    /\ TaskFrame_Unchanged /\ UNCHANGED replayed_to

\* A target closes its socket.
ConnTargetClosed(s) ==
    /\ mpc = "forward"
    /\ sock_state[s] = "open"
    /\ sock_state' = [sock_state EXCEPT ![s] = "closed"]
    /\ lastop' = Op("closed", NoFrame, 0, "none")
    /\ NoEffects
    /\ UNCHANGED <<target_connections, echo_cache, self_id, nframes, tasks>>
    /\ TaskFrame_Unchanged /\ UNCHANGED replayed_to

\* reload_targets(new_config) up to the first dial of _connect_to_targets
\* (proxy_server.py:966-997): the flag is set, the configuration replaced, the
\* old sockets closed, the slot array and the Sakoya flags cleared, the locks
\* rebuilt.  Without an enabled endpoint nothing is awaited and the reload
\* is over at once.
ConnReloadBegin(new_config) ==
    /\ mpc = "forward"
    /\ ~reloading
    /\ nreloads < MaxReloads
    /\ nreloads' = nreloads + 1 /\ UNCHANGED <<reload_at, replayed_to>>
    /\ config' = new_config
    /\ sock_state' = CloseAll(target_connections, sock_state)
    /\ target_sakoya_flags' = <<>>
    /\ reconnect_locks' = [i \in Slots |-> ~is_disabled(new_config, i)]
    /\ IF \A i \in Slots : is_disabled(new_config, i)
       THEN /\ target_connections' = [i \in Slots |-> 0]
            /\ reloading' = FALSE
       ELSE /\ target_connections' = <<>>
            /\ reloading' = TRUE
    /\ lastop' = Op("reload_begin", NoFrame, 0, "none")
    /\ NoEffects
    /\ UNCHANGED <<echo_cache, running, first_message, self_id, cws, mpc, tasks>>
    /\ UNCHANGED <<startup, nframes>>
    /\ UNCHANGED <<lvars, xvars>>

\* reload_targets, the rest of _connect_to_targets and the creation of the new
\* recv tasks (proxy_server.py:997-1015); an exception ends the reload in its
\* handler, which starts no task.
ConnReloadEnd(ok) ==
    /\ reloading
    /\ LET r == ConnectFrom(1, config, ok, target_connections, sock_state)
       IN  /\ target_connections' = r.tc
           /\ sock_state' = r.ss
           /\ tasks' = IF r.aborted THEN tasks
                       ELSE SpawnTasks(tasks, nreloads, r.tc, config, FALSE)
    /\ reloading' = FALSE
    /\ lastop' = Op("reload_end", NoFrame, 0, "none")
    /\ NoEffects
    /\ UNCHANGED <<config, target_sakoya_flags, reconnect_locks, echo_cache, running,
                   first_message, self_id, cws, mpc>>
    /\ UNCHANGED <<startup, nframes, nreloads, reload_at, replayed_to>>
    /\ UNCHANGED <<lvars, xvars>>

\* The client disconnects: the client-recv loop ends, start_proxy cancels the
\* target tasks it created (proxy_server.py:312-319) and runs stop().
ConnStop ==
    /\ mpc = "forward"
    /\ StopConn
    /\ sock_state' = CloseAll(target_connections, sock_state)
    /\ tasks' = [k \in TaskIds |-> IF tasks[k].cancel THEN IdleTask("done") ELSE tasks[k]]
    /\ mpc' = "stopped"
    /\ lastop' = Op("stop", NoFrame, 0, "none")
    /\ NoEffects
    /\ UNCHANGED <<config, target_sakoya_flags, reconnect_locks, echo_cache,
                   reloading, first_message, self_id>>
    /\ UNCHANGED <<startup, nframes, nreloads, reload_at, replayed_to>>
    /\ UNCHANGED <<lvars, xvars>>

NextConn ==
    \/ \E f \in FirstFrames : \E ok \in DialOutcomes(config) : ConnStart(f, ok)
    \/ \E k \in TaskIds :
          \/ RcCheck(k)
          \/ \E ok \in BOOLEAN : RcDial(k, ok, MaxFails)
          \/ RcReplay(k)
          \/ RcSettle(k)
          \/ RecvFrame(k)
          \/ \E how \in {"raise", "end"} : RecvClosed(k, how)
    \/ \E s \in Socks : ConnTargetClosed(s)
    \/ \E c \in OneTargetConfigs : ConnReloadBegin(c)
    \/ \E ok \in DialOutcomes(config) : ConnReloadEnd(ok)
    \/ ConnStop

SpecConn == InitTasks /\ [][NextConn]_pvars

(***************************************************************************)
(* SpecReconnect: one run after another of the reconnect procedure of the  *)
(* first slot, through both of its phases, without hot reloads.            *)
(***************************************************************************)

NextReconnect ==
    \/ \E f \in FirstFrames : \E ok \in DialOutcomes(config) : ConnStart(f, ok)
    \/ \E k \in TaskIds :
          \/ RcCheck(k)
          \/ \E ok \in BOOLEAN : RcDial(k, ok, NearAttempts)
          \/ RcFarCheck(k)
          \/ \E ok \in BOOLEAN : RcFarDial(k, ok)
          \/ RcReplay(k)
          \/ RcSettle(k)
          \/ RecvFrame(k)
          \/ \E how \in {"raise", "end"} : RecvClosed(k, how)
    \/ \E s \in Socks : ConnTargetClosed(s)
    \/ ConnStop

SpecReconnect == InitTasks /\ [][NextReconnect]_pvars

(***************************************************************************)
(* SpecReload: reload_targets run from one await to the next, next to the  *)
(* client-recv loop.  The tasks of the target slots are created and left   *)
(* where they start.                                                       *)
(***************************************************************************)

\* no reload_targets call is running
ReloadIdle == <<"idle", 0>>

\* the first slot from i on that holds a socket, 0 if there is none: the loop
\* `for target_ws in self.target_connections: if target_ws: await target_ws.close()`
RECURSIVE NextHeld(_, _)
NextHeld(i, tc) ==
    IF i > Len(tc) THEN 0
    ELSE IF tc[i] # 0 THEN i
    ELSE NextHeld(i + 1, tc)

\* _connect_to_targets from endpoint i up to its next dial: the disabled
\* endpoints on the way get their None placeholder; at is 0 at the end
RECURSIVE UpToDial(_, _, _)
UpToDial(i, cfg, tc) ==
    IF i > Len(cfg) THEN [tc |-> tc, at |-> 0]
    ELSE IF is_disabled(cfg, i) THEN UpToDial(i + 1, cfg, SetSlot(tc, i, 0))
    ELSE [tc |-> tc, at |-> i]

\* reload_targets inside _connect_to_targets, from endpoint i on: it waits in
\* the next dial, or _connect_to_targets returns, the recv tasks are created
\* and the flag is cleared (proxy_server.py:997-1007).  g counts the reloads.
ReloadFrom(i, cfg, tc, g) ==
    LET r == UpToDial(i, cfg, tc)
    IN  /\ target_connections' = r.tc
        /\ IF r.at # 0
           THEN /\ reload_at' = <<"dial", r.at>>
                /\ reloading' = TRUE
                /\ UNCHANGED tasks
           ELSE /\ reload_at' = ReloadIdle
                /\ reloading' = FALSE
                /\ tasks' = SpawnTasks(tasks, g, r.tc, cfg, FALSE)

\* reload_targets after its close loop (proxy_server.py:984-997)
ReloadCleared(cfg, g) ==
    /\ target_sakoya_flags' = <<>>
    /\ reconnect_locks' = [i \in Slots |-> ~is_disabled(cfg, i)]
    /\ ReloadFrom(1, cfg, <<>>, g)

\* reload_targets: the close loop waits in the close() of slot j, or is over
ReloadClose(j, cfg, g) ==
    IF j # 0
    THEN /\ reloading' = TRUE
         /\ reload_at' = <<"close", j>>
         /\ sock_state' = [sock_state EXCEPT ![target_connections[j]] = "closed"]
         /\ UNCHANGED <<target_connections, target_sakoya_flags, reconnect_locks, tasks>>
    ELSE /\ ReloadCleared(cfg, g)
         /\ UNCHANGED sock_state

\* reload_targets(new_config) is called (proxy_server.py:966-979)
RlBegin(new_config) ==
    /\ mpc = "forward"
    /\ reload_at = ReloadIdle
    /\ nreloads < MaxReloads
    /\ nreloads' = nreloads + 1
    /\ config' = new_config
    /\ ReloadClose(NextHeld(1, target_connections), new_config, nreloads + 1)
    /\ lastop' = Op("reload_begin", NoFrame, 0, "none")
    /\ NoEffects
    /\ UNCHANGED <<echo_cache, running, first_message, self_id, cws, mpc>>
    /\ UNCHANGED <<startup, nframes, replayed_to>>
    /\ UNCHANGED <<lvars, xvars>>

\* reload_targets: the close() it waited in is over
RlClosed ==
    /\ reload_at[1] = "close"
    /\ ReloadClose(NextHeld(reload_at[2] + 1, target_connections), config, nreloads)
    /\ lastop' = Op("reload_closed", NoFrame, reload_at[2], "none")
    /\ NoEffects
    /\ UNCHANGED <<config, echo_cache, running, first_message, self_id, cws, mpc>>
    /\ UNCHANGED <<startup, nframes, nreloads, replayed_to>>
    /\ UNCHANGED <<lvars, xvars>>

\* reload_targets: the dial it waited in is over.  An exception (the import
\* of the Sakoya adapter, the IndexError of _connect_to_target) ends the
\* reload in its handler (proxy_server.py:1011-1015).
RlDialed(ok) ==
    /\ reload_at[1] = "dial"
    /\ LET i == reload_at[2]
           r == connect_to_target(i, ok, target_connections, sock_state)
       IN  /\ sock_state' = r.ss
           /\ IF r.raised \/ (r.sock # 0 /\ is_sakoya(config, i))
              THEN /\ target_connections' = r.tc
                   /\ reloading' = FALSE
                   /\ reload_at' = ReloadIdle
                   /\ UNCHANGED tasks
              ELSE ReloadFrom(i + 1, config, r.tc, nreloads)
    /\ lastop' = Op("reload_dialed", NoFrame, reload_at[2], IF ok THEN "ok" ELSE "fail")
    /\ NoEffects
    /\ UNCHANGED <<config, target_sakoya_flags, reconnect_locks, echo_cache, running,
                   first_message, self_id, cws, mpc>>
    /\ UNCHANGED <<startup, nframes, nreloads, replayed_to>>
    /\ UNCHANGED <<lvars, xvars>>

\* _forward_client_to_targets next to the reload: one client frame
RlClientFrame(f, h) ==
    /\ mpc = "forward"
    /\ nframes < MaxFrames
    /\ nframes' = nframes + 1
    /\ cws = "OPEN"
    /\ ClientMessage(f, h.pre, h.handled, h.post)
    /\ lastop' = Op("client", f, 0, HookOf(h))
    /\ UNCHANGED <<config, target_connections, target_sakoya_flags, reconnect_locks,
                   running, reloading, first_message, cws, sock_state, mpc, tasks>>
    /\ UNCHANGED <<startup, nreloads, reload_at, replayed_to>>
    /\ UNCHANGED <<lvars, xvars>>

NextReload ==
    \/ \E f \in FirstFrames : \E ok \in DialOutcomes(config) : ConnStart(f, ok)
    \/ \E c \in Configs : RlBegin(c)
    \/ RlClosed
    \/ \E ok \in BOOLEAN : RlDialed(ok)
    \/ \E f \in ClientFrames : \E h \in HooksFor(f) : RlClientFrame(f, h)
    \/ ConnStop

SpecReload == InitRoute /\ [][NextReload]_pvars

(***************************************************************************)
(* SpecOrder: the client-recv loop with every write to a target as a step  *)
(* of its own.  The client sends numbered frames; the loop takes them one  *)
(* by one and each _process_client_message call writes to its slots in     *)
(* list order, one await after the other.  The command handler answers no  *)
(* frame here (an answered frame is written to the same slots).            *)
(***************************************************************************)

\* the frames the client sends in SpecOrder
OrderFrames ==
    { Frame(FALSE, "absent", "", "", "", 0),
      Frame(TRUE, "absent", "message", "", "", 2),
      Frame(TRUE, "absent", "meta_event", "", "", 1) }

\* the members of a set of slots in ascending order: `enumerate(self.target_connections)`
RECURSIVE SlotSeq(_, _)
SlotSeq(S, i) ==
    IF i > NumTargets THEN <<>>
    ELSE IF i \in S THEN <<i>> \o SlotSeq(S, i + 1)
    ELSE SlotSeq(S, i + 1)

\* a loop that starts every _process_client_message as a task of its own
LoopAwaits_Spawned(fl) == TRUE
\* `await self._process_client_message(message)` inside `async for`: the loop
\* takes the next frame only when the call for the last one has returned
LoopAwaits(fl) == fl = <<>>

\* the client writes its next frame to the socket
OrdClientSend(f) ==
    /\ mpc = "forward"
    /\ cws = "OPEN"
    /\ client_seq < MaxClientFrames
    /\ client_seq' = client_seq + 1
    /\ inbox' = Append(inbox, [n |-> client_seq + 1, f |-> f])
    /\ lastop' = Op("client_send", f, 0, "none")
    /\ NoEffects
    /\ UNCHANGED <<in_flight, delivered>>
    /\ UNCHANGED <<config, target_connections, target_sakoya_flags, reconnect_locks,
                   echo_cache, running, reloading, first_message, self_id, cws,
                   sock_state, mpc, tasks, startup, nframes, nreloads, reload_at,
                   replayed_to>>
    /\ UNCHANGED <<lvars, rvars, avars, uvars, evars>>

\* `async for message in self.client_ws` yields the oldest frame and
\* _process_client_message runs up to its first write to a target
OrdTake(pre) ==
    /\ mpc = "forward"
    /\ cws = "OPEN"
    /\ inbox # <<>>
    /\ LoopAwaits(in_flight)
    /\ LET m == Head(inbox)
           r == ProcessClient(m.f, pre, FALSE, "pass", target_connections, config,
                              target_sakoya_flags, echo_cache, cws, sock_state, self_id)
           slots == IF ~Parses(m.f) \/ pre = "drop" THEN {}
                    ELSE ForwardSlots(m.f, target_connections, config,
                                      target_sakoya_flags, echo_cache)
       IN  /\ inbox' = Tail(inbox)
           /\ in_flight' = IF slots = {} THEN in_flight
                           ELSE Append(in_flight, [n |-> m.n, f |-> m.f,
                                                   todo |-> SlotSeq(slots, 1)])
           /\ echo_cache' = r.cache
           /\ self_id' = r.self_id
           /\ saved' = r.saved
           /\ sent_client' = r.to_client
           /\ sent_targets' = {}
           /\ lastop' = Op("take", m.f, 0, pre)
    /\ UNCHANGED <<client_seq, delivered>>
    /\ UNCHANGED <<config, target_connections, target_sakoya_flags, reconnect_locks,
                   running, reloading, first_message, cws, sock_state, mpc, tasks,
                   startup, nframes, nreloads, reload_at, replayed_to>>
    /\ UNCHANGED <<lvars, rvars, avars, uvars, evars>>

\* `await target_ws.send(processed_json)` of the call k for its next slot; a
\* closed socket raises ConnectionClosed and the loop goes on (`continue`)
OrdSend(k) ==
    /\ mpc = "forward"
    /\ k \in 1..Len(in_flight)
    /\ LET c == in_flight[k]
           i == Head(c.todo)
           open == sock_state[target_connections[i]] = "open"
           rest == [c EXCEPT !.todo = Tail(c.todo)]
       IN  /\ delivered' = IF open THEN Append(delivered, <<i, c.n>>) ELSE delivered
           /\ sent_targets' = IF open THEN {<<i, target_connections[i], "frame">>} ELSE {}
           /\ in_flight' = IF rest.todo = <<>>
                           THEN SubSeq(in_flight, 1, k - 1) \o SubSeq(in_flight, k + 1, Len(in_flight))
                           ELSE [in_flight EXCEPT ![k] = rest]
           /\ lastop' = Op("send", c.f, i, "none")
    /\ sent_client' = {}
    /\ saved' = {}
    /\ UNCHANGED <<inbox, client_seq>>
    /\ UNCHANGED <<config, target_connections, target_sakoya_flags, reconnect_locks,
                   echo_cache, running, reloading, first_message, self_id, cws,
                   sock_state, mpc, tasks, startup, nframes, nreloads, reload_at,
                   replayed_to>>
    /\ UNCHANGED <<lvars, rvars, avars, uvars, evars>>

\* `await target_ws.send(processed_json)` of the call k raises an exception
\* that is no ConnectionClosed: it is logged and raised again
\* (proxy_server.py:752-754), the handler at the end of
\* _process_client_message logs it (760-761) and the call returns, its other
\* slots unwritten.  The Sakoya adapter's send raises nothing
\* (sakoya_adapter.py:257-269).
OrdSendError(k) ==
    /\ mpc = "forward"
    /\ k \in 1..Len(in_flight)
    /\ ~is_sakoya(config, Head(in_flight[k].todo))
    /\ sock_state[target_connections[Head(in_flight[k].todo)]] = "open"
    /\ in_flight' = SubSeq(in_flight, 1, k - 1) \o SubSeq(in_flight, k + 1, Len(in_flight))
    /\ lastop' = Op("send_error", in_flight[k].f, Head(in_flight[k].todo), "none")
    /\ NoEffects
    /\ UNCHANGED <<inbox, client_seq, delivered>>
    /\ UNCHANGED <<config, target_connections, target_sakoya_flags, reconnect_locks,
                   echo_cache, running, reloading, first_message, self_id, cws,
                   sock_state, mpc, tasks, startup, nframes, nreloads, reload_at,
                   replayed_to>>
    /\ UNCHANGED <<lvars, rvars, avars, uvars, evars>>

NextOrder ==
    \/ \E f \in FirstFrames : RouteFirst(f)
    \/ \E ok \in DialOutcomes(config) : RouteDial(ok)
    \/ RouteReplay([pre |-> "pass", handled |-> FALSE, post |-> "pass"])
    \/ RouteReboot("pass")
    \/ \E f \in OrderFrames : OrdClientSend(f)
    \/ \E pre \in HookOutcomes : OrdTake(pre)
    \/ \E k \in 1..MaxClientFrames : OrdSend(k)
    \/ \E k \in 1..MaxClientFrames : OrdSendError(k)
    \/ \E s \in Socks : RouteTargetClosed(s)
    \/ RouteStop

ovars_all == <<lvars, pvars, xvars>>

SpecOrder == InitRoute /\ [][NextOrder]_ovars_all

(***************************************************************************)
(* SpecRoutes: the route table of the path-routing listeners               *)
(* (UnifiedProxyServer and UnifiedHttpWsServer), the per-port servers of   *)
(* UnifiedProxyServer and what an accepted client socket gets.             *)
(***************************************************************************)

ConnIds == 1..NumConns
Ports == 1..NumPorts
\* global_config["ws_port"], which is also the port UnifiedHttpWsServer listens on
WsPort == 1
MaxPortTasks == NumPorts * (MaxRouteReloads + 1)
PortTaskIds == 1..MaxPortTasks

\* A client_endpoint string: its scheme, its port and what follows host:port
\* ("" when the string ends there).
Ep(scheme, port, path) == [scheme |-> scheme, port |-> port, path |-> path]
ClientEndpoints ==
    { Ep("ws", 1, "/a"), Ep("ws", 1, ""), Ep("ws", 1, "/"), Ep("ws", 2, "/a"),
      Ep("wss", 1, "/a") }

\* The entry of a connection_id in the stored configuration: none, one with
\* enabled false, or an enabled one with its client_endpoint.
Entry(present, enabled, ep) == [present |-> present, enabled |-> enabled, ep |-> ep]
NoEntry == Entry(FALSE, FALSE, Ep("ws", 1, "/a"))
Entries ==
    {NoEntry, Entry(TRUE, FALSE, Ep("ws", 1, "/a"))}
        \cup { Entry(TRUE, TRUE, e) : e \in ClientEndpoints }
RouteConfigs == [ConnIds -> Entries]

\* _parse_endpoint.  UnifiedProxyServer raises ValueError unless the string
\* starts with "ws://" and turns a missing path into "/"; UnifiedHttpWsServer
\* uses urlparse (any scheme) and `parsed.path or '/'`.
parse_endpoint(class, ep) ==
    [ok |-> class = "UnifiedHttpWsServer" \/ ep.scheme = "ws",
     port |-> ep.port,
     path |-> IF ep.path = "" THEN "/" ELSE ep.path]

\* the connection_id route_map[port]['paths'] has for path, 0 if none
RouteOf(rm, port, path) ==
    IF \E t \in rm : t[1] = port /\ t[2] = path
    THEN (CHOOSE t \in rm : t[1] = port /\ t[2] = path)[3]
    ELSE 0

RoutePorts(rm) == { t[1] : t \in rm }

\* _build_route_map from the entry of connection i on, in the order of the
\* configuration: rm is the route map and cc the stored configs so far
RECURSIVE BuildFrom(_, _, _, _, _)
BuildFrom(i, cfg, class, rm, cc) ==
    IF i > NumConns THEN [route_map |-> rm, connection_configs |-> cc]
    ELSE
      LET e == cfg[i]
          r == parse_endpoint(class, e.ep)
          skip == \/ ~e.present \/ ~e.enabled
                  \/ ~r.ok
                  \/ (class = "UnifiedHttpWsServer" /\ r.port # WsPort)
                  \/ RouteOf(rm, r.port, r.path) # 0
      IN  IF skip THEN BuildFrom(i + 1, cfg, class, rm, cc)
          ELSE BuildFrom(i + 1, cfg, class, rm \cup {<<r.port, r.path, i>>},
                         IF class = "UnifiedProxyServer" THEN cc \cup {i} ELSE cc)

build_route_map(cfg, class) == BuildFrom(1, cfg, class, {}, {})

\* a reload that starts no server
PortsToStart_None(new_ports, old_ports) == {}
\* reload_routes: ports_to_start = new_ports - old_ports
PortsToStart(new_ports, old_ports) == new_ports \ old_ports

PortTask(port, st) == [port |-> port, st |-> st]

\* asyncio.create_task(self._start_port_server(port, route_info)) for every
\* port of S: each takes the first task that was never used
RECURSIVE SpawnServers(_, _, _)
SpawnServers(ps, S, p) ==
    IF p > NumPorts THEN ps
    ELSE IF p \in S /\ \E k \in PortTaskIds : ps[k].st = "unused"
    THEN LET k == CHOOSE j \in PortTaskIds :
                      ps[j].st = "unused" /\ \A l \in 1..(j - 1) : ps[l].st # "unused"
         IN  SpawnServers([ps EXCEPT ![k] = PortTask(p, "created")], S, p + 1)
    ELSE SpawnServers(ps, S, p + 1)

RtOp(op, port, path, code, conn, how, old_ports) ==
    [op |-> op, port |-> port, path |-> path, code |-> code, conn |-> conn,
     how |-> how, old_ports |-> old_ports]

InitRoutes ==
    /\ listener_class \in {"UnifiedProxyServer", "UnifiedHttpWsServer"}
    /\ connections_config \in RouteConfigs
    /\ route_map = {}
    /\ connection_configs = {}
    /\ port_servers = [k \in PortTaskIds |-> PortTask(0, "unused")]
    /\ rt_count = <<0, 0>>
    /\ rt_last = RtOp("init", 0, "", 0, 0, "", {})
    /\ ConnAtRest
    /\ ListenerAtRest
    /\ OrderAtRest
    /\ AdapterAtRest
    /\ AuthAtRest
    /\ EchoAtRest

\* start(): the route map is built; UnifiedProxyServer creates a server task
\* for every port of it, UnifiedHttpWsServer registers the paths on its one site
RtStart ==
    /\ rt_last.op = "init"
    /\ LET b == build_route_map(connections_config, listener_class)
       IN  /\ route_map' = b.route_map
           /\ connection_configs' = b.connection_configs
           /\ port_servers' = IF listener_class = "UnifiedProxyServer"
                              THEN SpawnServers(port_servers, RoutePorts(b.route_map), 1)
                              ELSE port_servers
    /\ rt_last' = RtOp("start", 0, "", 0, 0, "", {})
    /\ UNCHANGED <<listener_class, connections_config, rt_count>>
    /\ UNCHANGED <<lvars, pvars, ovars, avars, uvars, evars>>

\* _start_port_server up to `async with websockets.serve(...)`: the bind fails
\* (OSError, logged) while another server of this process holds the port
RtBind(k) ==
    /\ port_servers[k].st = "created"
    /\ LET held == \E j \in PortTaskIds :
                      port_servers[j].st = "serving" /\ port_servers[j].port = port_servers[k].port
       IN  port_servers' = [port_servers EXCEPT ![k].st = IF held THEN "failed" ELSE "serving"]
    /\ rt_last' = RtOp("bind", port_servers[k].port, "", 0, 0, "", {})
    /\ UNCHANGED <<listener_class, connections_config, route_map, connection_configs, rt_count>>
    /\ UNCHANGED <<lvars, pvars, ovars, avars, uvars, evars>>

\* _start_port_server, the loop `while self.running: await asyncio.sleep(1)`:
\* the server leaves when its port is not in route_map any more
RtTick(k) ==
    /\ port_servers[k].st = "serving"
    /\ port_servers[k].port \notin RoutePorts(route_map)
    /\ port_servers' = [port_servers EXCEPT ![k].st = "done"]
    /\ rt_last' = RtOp("tick", port_servers[k].port, "", 0, 0, "", {})
    /\ UNCHANGED <<listener_class, connections_config, route_map, connection_configs, rt_count>>
    /\ UNCHANGED <<lvars, pvars, ovars, avars, uvars, evars>>

\* the stored configuration is changed (web UI, config file) and no
\* reload_routes follows; UnifiedHttpWsServer has no reload
RtConfigEdit(c) ==
    /\ listener_class = "UnifiedHttpWsServer"
    /\ rt_last.op # "init"
    /\ rt_count[1] < MaxRouteReloads
    /\ c # connections_config
    /\ connections_config' = c
    /\ rt_count' = <<rt_count[1] + 1, rt_count[2]>>
    /\ rt_last' = RtOp("edit", 0, "", 0, 0, "", {})
    /\ UNCHANGED <<listener_class, route_map, connection_configs, port_servers>>
    /\ UNCHANGED <<lvars, pvars, ovars, avars, uvars, evars>>

\* UnifiedProxyServer.reload_routes(); c is what
\* config_manager.get_connections_config() returns to it
RtReload(c) ==
    /\ listener_class = "UnifiedProxyServer"
    /\ rt_last.op # "init"
    /\ rt_count[2] < MaxRouteReloads
    /\ connections_config' = c
    /\ LET old_ports == RoutePorts(route_map)
           b == build_route_map(c, listener_class)
           new_ports == RoutePorts(b.route_map)
       IN  /\ route_map' = b.route_map
           /\ connection_configs' = b.connection_configs
           /\ port_servers' = SpawnServers(port_servers, PortsToStart(new_ports, old_ports), 1)
           /\ rt_last' = RtOp("reload", 0, "", 0, 0, "", old_ports)
    /\ rt_count' = <<rt_count[1], rt_count[2] + 1>>
    /\ UNCHANGED listener_class
    /\ UNCHANGED <<lvars, pvars, ovars, avars, uvars, evars>>

\* UnifiedProxyServer, connection_handler of the server of `port`, for a
\* client socket that asks for `path`: the close code it sends (0: none) and
\* the connection_id it starts a ProxyConnection for (0: none)
unified_handler(port, path, rm, cc) ==
    LET id == RouteOf(rm, port, path)
    IN  IF id = 0 THEN [code |-> 1008, conn |-> 0, how |-> "ws"]
        ELSE IF id \notin cc THEN [code |-> 1011, conn |-> 0, how |-> "ws"]
        ELSE [code |-> 0, conn |-> id, how |-> "ws"]

\* UnifiedHttpWsServer: a path that was not registered at start goes to the
\* WSGI handler; websocket_handler closes with `await ws.close()` (code 1000)
\* when the stored configuration has no entry for the connection_id
http_ws_handler(path, rm, cfg) ==
    IF \A t \in rm : t[2] # path THEN [code |-> 0, conn |-> 0, how |-> "http"]
    ELSE LET id == (CHOOSE t \in rm : t[2] = path)[3]
         IN  IF ~cfg[id].present THEN [code |-> 1000, conn |-> 0, how |-> "ws"]
             ELSE [code |-> 0, conn |-> id, how |-> "ws"]

\* a client socket connects to `port` and asks for `path`
RtAccept(port, path) ==
    /\ rt_last.op # "init"
    /\ IF listener_class = "UnifiedProxyServer"
       THEN \E k \in PortTaskIds : port_servers[k] = PortTask(port, "serving")
       ELSE port = WsPort
    /\ LET r == IF listener_class = "UnifiedProxyServer"
                THEN unified_handler(port, path, route_map, connection_configs)
                ELSE http_ws_handler(path, route_map, connections_config)
       IN  rt_last' = RtOp("accept", port, path, r.code, r.conn, r.how, {})
    /\ UNCHANGED <<listener_class, connections_config, route_map, connection_configs,
                   port_servers, rt_count>>
    /\ UNCHANGED <<lvars, pvars, ovars, avars, uvars, evars>>

\* the paths a client asks for
ClientPaths == {"/", "/a", "/b"}

NextRoutes ==
    \/ RtStart
    \/ \E k \in PortTaskIds : RtBind(k)
    \/ \E k \in PortTaskIds : RtTick(k)
    \/ \E c \in RouteConfigs : RtConfigEdit(c) \/ RtReload(c)
    \/ \E port \in Ports : \E path \in ClientPaths : RtAccept(port, path)

SpecRoutes == InitRoutes /\ [][NextRoutes]_ovars_all

(***************************************************************************)
(* SpecPorts: the per-port servers of UnifiedProxyServer under             *)
(* reload_routes.  Every created task gets to run and every server wakes   *)
(* from its sleep(1), which is what the fairness conditions say.           *)
(***************************************************************************)

\* the configurations of SpecPorts: a connection is absent or enabled on
\* the path /a of one of two ports
PortConfigs ==
    { c \in RouteConfigs :
        \A i \in ConnIds :
            c[i] \in {NoEntry, Entry(TRUE, TRUE, Ep("ws", 1, "/a")),
                      Entry(TRUE, TRUE, Ep("ws", 2, "/a"))} }

InitPorts ==
    /\ InitRoutes
    /\ listener_class = "UnifiedProxyServer"
    /\ connections_config \in PortConfigs

NextPorts ==
    \/ RtStart
    \/ \E k \in PortTaskIds : RtBind(k)
    \/ \E k \in PortTaskIds : RtTick(k)
    \/ \E c \in PortConfigs : RtReload(c)

SpecPorts ==
    /\ InitPorts
    /\ [][NextPorts]_ovars_all
    /\ \A k \in PortTaskIds : WF_ovars_all(RtBind(k)) /\ WF_ovars_all(RtTick(k))

(***************************************************************************)
(* SpecAdapter and SpecCache: SakoyaWebSocketAdapter.send.  A segment of a *)
(* OneBot message is [type, text, id, file, url]: text is the data of a    *)
(* text segment, id the qq of an at segment and the id of a reply segment, *)
(* file and url the data of an image segment.  A message id is a number,   *)
(* 0 stands for a missing one.                                             *)
(***************************************************************************)

Seg(type, text, id, file, url) ==
    [type |-> type, text |-> text, id |-> id, file |-> file, url |-> url]
TextSeg(t) == Seg("text", t, 0, "", "")
ImageSeg(file, url) == Seg("image", "", 0, file, url)
ReplySeg(id) == Seg("reply", "", id, "", "")

\* self._max_cache_size
max_cache_size == 100

\* an eviction that drops the newest entry
Evict_Newest(cache) == SubSeq(cache, 1, Len(cache) - 1)
\* self._message_cache.popitem(last=False)
Evict(cache) == Tail(cache)

\* self._message_cache[message_id] = message_segments, then the size limit:
\* a key the OrderedDict already has keeps its place
CachePut(cache, id, message) ==
    IF id = 0 THEN cache
    ELSE IF \E k \in 1..Len(cache) : cache[k].id = id
    THEN [k \in 1..Len(cache) |->
             IF cache[k].id = id THEN [id |-> id, message |-> message] ELSE cache[k]]
    ELSE LET c == Append(cache, [id |-> id, message |-> message])
         IN  IF Len(c) > max_cache_size THEN Evict(c) ELSE c

\* the id of the first reply segment of the message, 0 if there is none
RECURSIVE FirstReply(_)
FirstReply(message) ==
    IF message = <<>> THEN 0
    ELSE IF Head(message).type = "reply" THEN Head(message).id
    ELSE FirstReply(Tail(message))

\* the image segments collected from the cached message: one with a url is
\* rebuilt with the url alone, one without is taken as it is
RECURSIVE ReplyImages(_)
ReplyImages(message) ==
    IF message = <<>> THEN <<>>
    ELSE LET g == Head(message)
         IN  IF g.type # "image" THEN ReplyImages(Tail(message))
             ELSE <<IF g.url # "" THEN ImageSeg("", g.url) ELSE g>> \o ReplyImages(Tail(message))

IsNoReply(g) == g.type # "reply"

\* the completed message with the images behind the segments
Completed_ImagesLast(images, message) == SelectSeq(message, IsNoReply) \o images
\* event["message"] = image_segments + new_message
Completed(images, message) == images \o SelectSeq(message, IsNoReply)

\* _process_reply_message(event): the cache and event["message"] after it
process_reply_message(id, message, cache) ==
    LET c == CachePut(cache, id, message)
        reply_id == FirstReply(message)
        hit == reply_id # 0 /\ \E k \in 1..Len(c) : c[k].id = reply_id
        images == IF hit
                  THEN ReplyImages((CHOOSE e \in { c[k] : k \in 1..Len(c) } : e.id = reply_id).message)
                  ELSE <<>>
    IN  [cache |-> c,
         message |-> IF images # <<>> THEN Completed(images, message) ELSE message]

\* A frame handed to send(): resp says that it has one of the keys echo,
\* retcode, status.
AFrame(json, resp, post_type, action, id, message) ==
    [json |-> json, resp |-> resp, post_type |-> post_type, action |-> action,
     id |-> id, message |-> message]

PASSTHROUGH_ACTIONS == {"get_login_info", "get_status", "get_version_info", "lifecycle", "_connect"}

\* send(message): kind says what is written to the socket ("none": nothing,
\* "onebot": the OneBot JSON as it came, "sakoya": the translation)
adapter_send(f, cache) ==
    LET as_is == [cache |-> cache, kind |-> "onebot", message |-> f.message]
    IN  IF ~f.json THEN as_is
        ELSE IF f.resp THEN as_is
        ELSE IF f.post_type = "meta_event"
        THEN [cache |-> cache, kind |-> "none", message |-> <<>>]
        ELSE IF f.post_type = "message"
        THEN LET r == process_reply_message(f.id, f.message, cache)
             IN  [cache |-> r.cache, kind |-> "sakoya", message |-> r.message]
        ELSE IF f.action \in PASSTHROUGH_ACTIONS THEN as_is
        ELSE IF ~(f.action \in {"send_group_msg", "send_private_msg", "send_msg"}) THEN as_is
        ELSE [cache |-> cache, kind |-> "sakoya", message |-> f.message]

\* the messages of the events in SpecAdapter
AdapterMessages ==
    { <<TextSeg("hi")>>,
      <<ImageSeg("a.jpg", "http://u/a"), TextSeg("hi")>>,
      <<ImageSeg("b.jpg", ""), ImageSeg("a.jpg", "http://u/a")>>,
      <<ReplySeg(1), TextSeg("hi")>>,
      <<TextSeg("hi"), ReplySeg(2), ReplySeg(1)>>,
      <<ReplySeg(1), ImageSeg("c.jpg", "")>> }

AdapterFrames ==
    { AFrame(FALSE, FALSE, "", "", 0, <<>>),
      AFrame(TRUE, TRUE, "", "", 0, <<>>),
      AFrame(TRUE, FALSE, "meta_event", "", 0, <<>>),
      AFrame(TRUE, TRUE, "meta_event", "", 0, <<>>),
      AFrame(TRUE, FALSE, "", "_connect", 0, <<>>),
      AFrame(TRUE, FALSE, "", "get_login_info", 0, <<>>),
      AFrame(TRUE, TRUE, "", "get_status", 0, <<>>),
      AFrame(TRUE, FALSE, "", "get_group_list", 0, <<>>),
      AFrame(TRUE, FALSE, "", "send_group_msg", 0, <<TextSeg("hi")>>) }
        \cup { AFrame(TRUE, FALSE, "message", "", id, m) : id \in 0..2, m \in AdapterMessages }

\* the events of SpecCache: the id says what the message is
CacheFrame(id) ==
    AFrame(TRUE, FALSE, "message", "", id,
           IF id % 2 = 0 THEN <<TextSeg("hi")>> ELSE <<ImageSeg("a.jpg", "")>>)

InitAdapter ==
    /\ message_cache = <<>>
    /\ ad_count = 0
    /\ ad_last = [frame |-> AFrame(FALSE, FALSE, "", "", 0, <<>>), kind |-> "init",
                  message |-> <<>>]
    /\ conv = "none"
    /\ ConnAtRest
    /\ ListenerAtRest
    /\ OrderAtRest
    /\ RoutesAtRest
    /\ AuthAtRest
    /\ EchoAtRest

\* one call of send(f) on the adapter
AdSend(f, max) ==
    /\ ad_count < max
    /\ ad_count' = ad_count + 1
    /\ LET r == adapter_send(f, message_cache)
       IN  /\ message_cache' = r.cache
           /\ ad_last' = [frame |-> f, kind |-> r.kind, message |-> r.message]
    /\ UNCHANGED conv
    /\ UNCHANGED <<lvars, pvars, ovars, rvars, uvars, evars>>

NextAdapter == \E f \in AdapterFrames : AdSend(f, MaxSends)

SpecAdapter == InitAdapter /\ [][NextAdapter]_ovars_all

\* the events carry new message ids while the cache fills, then a new id,
\* the id of an old or of the newest message, or none
CacheIds ==
    IF ad_count + 1 < max_cache_size THEN {ad_count + 1}
    ELSE {0, 1, ad_count, ad_count + 1}

NextCache == \E id \in CacheIds : AdSend(CacheFrame(id), MaxCacheSends)

SpecCache == InitAdapter /\ [][NextCache]_ovars_all

(***************************************************************************)
(* SpecConvert: SakowaConverter.onebot_event_to_sakoya followed by         *)
(* sakoya_to_onebot.  A Python value is [t, s, n]: an int n, a str s or    *)
(* None.  A segment of the event is [type, val, file, url] with val the    *)
(* text, qq or id of its data; a Sakoya message is [type, data] with data  *)
(* a str value or the dict {type, content}.  The event has no "reply"      *)
(* key; msg_id, self_id and sender are left out.                           *)
(***************************************************************************)

PyInt(n) == [t |-> "int", s |-> "", n |-> n]
PyStr(s) == [t |-> "str", s |-> s, n |-> 0]
PyNone == [t |-> "none", s |-> "", n |-> 0]

\* the decimal digits of the numbers of the model
Decimal == [n \in 0..3 |-> CASE n = 0 -> "0" [] n = 1 -> "1" [] n = 2 -> "2" [] OTHER -> "3"]

\* str(x)
py_str(x) ==
    CASE x.t = "int" -> PyStr(Decimal[x.n])
      [] x.t = "str" -> x
      [] OTHER -> PyStr("None")

\* int(x) if x and str(x).isdigit() else 0
int_or_zero(x) ==
    IF x.t = "str" /\ \E n \in DOMAIN Decimal : Decimal[n] = x.s
    THEN PyInt(CHOOSE n \in DOMAIN Decimal : Decimal[n] = x.s)
    ELSE IF x.t = "int" THEN x
    ELSE PyInt(0)

CSeg(type, val, file, url) == [type |-> type, val |-> val, file |-> file, url |-> url]
SData(s) == [t |-> "str", s |-> s, itype |-> ""]
SDict(itype, content) == [t |-> "dict", s |-> content, itype |-> itype]
SMsg(type, data) == [type |-> type, data |-> data]

\* the Message one segment of event["message"] is turned into
SegToSakoya(g) ==
    CASE g.type = "text" -> SMsg("text", SData(py_str(g.val).s))
      [] g.type = "at" -> SMsg("at", SData(py_str(g.val).s))
      [] g.type = "image" -> SMsg("image", SData(IF g.url # "" THEN g.url ELSE g.file))
      [] g.type = "record" -> SMsg("record", SData(g.file))
      [] g.type = "reply" -> SMsg("reply", SData(py_str(g.val).s))
      [] OTHER -> SMsg("text", SData("{'id': '" \o g.val.s \o "'}"))

onebot_event_to_sakoya(event) ==
    LET is_group == event.message_type = "group"
    IN  [user_type |-> IF is_group THEN "group" ELSE "direct",
         user_id |-> py_str(event.user_id),
         group_id |-> IF is_group THEN py_str(event.group_id) ELSE PyNone,
         content |-> [k \in 1..Len(event.message) |-> SegToSakoya(event.message[k])]]

\* the segments one Message of the content is turned into
MsgToSegs(msg) ==
    CASE msg.type \in {"text", "at", "reply"} ->
             <<CSeg(msg.type, PyStr(IF msg.data.t = "str" THEN msg.data.s ELSE "{...}"), "", "")>>
      [] msg.type = "image" ->
             IF msg.data.t # "dict" THEN <<>>
             ELSE IF msg.data.itype \in {"url", "file"}
             THEN <<CSeg("image", PyNone, msg.data.s, "")>>
             ELSE IF msg.data.itype = "b64"
             THEN <<CSeg("image", PyNone, "base64://" \o msg.data.s, "")>>
             ELSE <<>>
      [] msg.type = "record" ->
             IF msg.data.t = "str" THEN <<CSeg("record", PyNone, msg.data.s, "")>> ELSE <<>>
      [] OTHER -> <<>>

RECURSIVE ContentToSegs(_)
ContentToSegs(content) ==
    IF content = <<>> THEN <<>>
    ELSE MsgToSegs(Head(content)) \o ContentToSegs(Tail(content))

sakoya_to_onebot(message) ==
    LET is_group == message.user_type = "group"
    IN  [message_type |-> IF is_group THEN "group" ELSE "private",
         user_id |-> int_or_zero(message.user_id),
         group_id |-> IF is_group THEN int_or_zero(message.group_id) ELSE PyNone,
         message |-> ContentToSegs(message.content)]

\* the segments of the events converted
EventSegs ==
    { CSeg("text", PyStr("hi"), "", ""),
      CSeg("text", PyStr(""), "", ""),
      CSeg("at", PyStr("1"), "", ""),
      CSeg("at", PyStr("all"), "", ""),
      CSeg("reply", PyStr("2"), "", ""),
      CSeg("image", PyNone, "a.jpg", "http://u/a"),
      CSeg("image", PyNone, "base64://x", ""),
      CSeg("record", PyNone, "r.amr", ""),
      CSeg("face", PyStr("1"), "", "") }

RECURSIVE SeqsUpTo(_, _)
SeqsUpTo(S, n) ==
    IF n = 0 THEN {<<>>}
    ELSE LET shorter == SeqsUpTo(S, n - 1)
         IN  shorter \cup { Append(q, x) : q \in shorter, x \in S }

Events ==
    { [message_type |-> mt, user_id |-> PyInt(u),
       group_id |-> IF mt = "group" THEN PyInt(3) ELSE PyNone, message |-> msg] :
          mt \in {"group", "private"}, u \in 1..2, msg \in SeqsUpTo(EventSegs, MaxSegs) }

NoEvent == [message_type |-> "", user_id |-> PyNone, group_id |-> PyNone, message |-> <<>>]
NoReceive == [user_type |-> "", user_id |-> PyNone, group_id |-> PyNone, content |-> <<>>]

InitConvert ==
    /\ \E e \in Events : conv = [pc |-> "event", event |-> e, sakoya |-> NoReceive, back |-> NoEvent]
    /\ message_cache = <<>>
    /\ ad_count = 0
    /\ ad_last = "none"
    /\ ConnAtRest
    /\ ListenerAtRest
    /\ OrderAtRest
    /\ RoutesAtRest
    /\ AuthAtRest
    /\ EchoAtRest

\* onebot_event_to_sakoya(event)
ConvToSakoya ==
    /\ conv.pc = "event"
    /\ conv' = [conv EXCEPT !.pc = "sakoya", !.sakoya = onebot_event_to_sakoya(conv.event)]
    /\ UNCHANGED <<message_cache, ad_count, ad_last>>
    /\ UNCHANGED <<lvars, pvars, ovars, rvars, uvars, evars>>

\* sakoya_to_onebot(message)
ConvToOnebot ==
    /\ conv.pc = "sakoya"
    /\ conv' = [conv EXCEPT !.pc = "back", !.back = sakoya_to_onebot(conv.sakoya)]
    /\ UNCHANGED <<message_cache, ad_count, ad_last>>
    /\ UNCHANGED <<lvars, pvars, ovars, rvars, uvars, evars>>

NextConvert == ConvToSakoya \/ ConvToOnebot

SpecConvert == InitConvert /\ [][NextConvert]_ovars_all

(***************************************************************************)
(* SpecAuth: the auth command of a bot, AuthCommand.execute, on            *)
(* AuthManager.  The first component of what verify_key returns is a       *)
(* Python value: a bool, or the tuple _record_failed_attempt returned.     *)
(* The clock counts seconds; a ban lasts longer than the clock runs.       *)
(***************************************************************************)

Bots == {1, 2}
Keys == {"K1", "K2"}
KeyTTL == 180
TickSeconds == 100
max_attempts == 3

AuthBool(b) == [t |-> "bool", b |-> b, msg |-> ""]
AuthTuple(b, msg) == [t |-> "tuple", b |-> b, msg |-> msg]

\* the truth value of `if success:`: a tuple of two items is true
IsTrue(x) == IF x.t = "bool" THEN x.b ELSE TRUE

\* _cleanup_expired_keys() at time now
cleanup_expired_keys(keys, now) == { k \in keys : ~(now > k.expires_at) }

\* _record_failed_attempt(bot_id): the counters after it and the tuple returned
record_failed_attempt(bot) ==
    LET n == failed_attempts[bot] + 1
        ban == n >= max_attempts
    IN  [failed_attempts |-> [failed_attempts EXCEPT ![bot] = n],
         is_banned |-> IF database_manager /\ ban THEN is_banned \cup {bot} ELSE is_banned,
         result |-> AuthTuple(FALSE, IF ban THEN "too_many" ELSE "remaining")]

\* a verification that does not look at the bot of the key
VerifyCase_AnyBot(bot, key, now, later) ==
    LET keys == cleanup_expired_keys(valid_keys, now)
    IN  IF bot \in is_banned THEN "banned"
        ELSE IF ~(\E k \in keys : k.key = key) THEN "unknown"
        ELSE LET key_data == CHOOSE k \in keys : k.key = key
             IN  IF later > key_data.expires_at THEN "expired"
                 ELSE "ok"
\* what verify_key(bot, key) finds: now is the time of the cleanup, later the
\* time of the expiry test
VerifyCase(bot, key, now, later) ==
    LET keys == cleanup_expired_keys(valid_keys, now)
    IN  IF bot \in is_banned THEN "banned"
        ELSE IF ~(\E k \in keys : k.key = key) THEN "unknown"
        ELSE LET key_data == CHOOSE k \in keys : k.key = key
             IN  IF key_data.bot_id # bot THEN "other_bot"
                 ELSE IF later > key_data.expires_at THEN "expired"
                 ELSE "ok"

\* `return await self._record_failed_attempt(bot_id), "..."`: the first
\* component is what _record_failed_attempt returned
FirstOf(r) == r

\* AuthCommand.execute: the answer for the first component of the result
execute_answer(success) == IF IsTrue(success) THEN "success" ELSE "PERMISSION_DENIED"

InitAuth ==
    /\ database_manager \in BOOLEAN
    /\ valid_keys = {}
    /\ failed_attempts = [b \in Bots |-> 0]
    /\ is_banned = {}
    /\ is_authenticated = {}
    /\ clock = 0
    /\ auth_count = 0
    /\ auth_last = [op |-> "init", bot |-> 0, key |-> "", case |-> "", success |-> AuthBool(FALSE),
                    answer |-> "", streak |-> [b \in Bots |-> 0], prior |-> 0]
    /\ ConnAtRest
    /\ ListenerAtRest
    /\ OrderAtRest
    /\ RoutesAtRest
    /\ AdapterAtRest
    /\ EchoAtRest

\* the command without a key: generate_temp_key(bot_id)
AuthGenerate(bot, key) ==
    /\ ~(\E k \in valid_keys : k.key = key)
    /\ valid_keys' = cleanup_expired_keys(
                         valid_keys \cup {[key |-> key, bot_id |-> bot, expires_at |-> clock + KeyTTL]},
                         clock)
    /\ auth_last' = [op |-> "generate", bot |-> bot, key |-> key, case |-> "",
                     success |-> AuthBool(TRUE), answer |-> "success", streak |-> auth_last.streak,
                     prior |-> auth_last.streak[bot]]
    /\ UNCHANGED <<database_manager, failed_attempts, is_banned, is_authenticated, clock, auth_count>>
    /\ UNCHANGED <<lvars, pvars, ovars, rvars, avars, evars>>

\* the command with a key: verify_key(bot_id, key) and the answer; d seconds
\* pass in the awaits between the cleanup and the expiry test
AuthVerify(bot, key, d) ==
    /\ auth_count < MaxVerifies
    /\ clock + d <= MaxTicks * TickSeconds
    /\ auth_count' = auth_count + 1
    /\ clock' = clock + d
    /\ LET case == VerifyCase(bot, key, clock, clock + d)
           keys == cleanup_expired_keys(valid_keys, clock)
           failed == record_failed_attempt(bot)
           success == CASE case = "banned" -> AuthBool(FALSE)
                        [] case = "ok" -> AuthBool(TRUE)
                        [] OTHER -> FirstOf(failed.result)
       IN  /\ valid_keys' = IF case \in {"expired", "ok"}
                            THEN { k \in keys : k.key # key } ELSE keys
           /\ failed_attempts' = IF case \in {"unknown", "other_bot", "expired"}
                                 THEN failed.failed_attempts
                                 ELSE IF case = "ok" /\ database_manager
                                 THEN [failed_attempts EXCEPT ![bot] = 0]
                                 ELSE failed_attempts
           /\ is_banned' = IF case \in {"unknown", "other_bot", "expired"}
                           THEN failed.is_banned ELSE is_banned
           /\ is_authenticated' = IF case = "ok" /\ database_manager
                                  THEN is_authenticated \cup {bot} ELSE is_authenticated
           /\ auth_last' = [op |-> "verify", bot |-> bot, key |-> key, case |-> case,
                            success |-> success, answer |-> execute_answer(success),
                            streak |-> [auth_last.streak EXCEPT ![bot] =
                                           CASE case = "ok" -> 0
                                             [] case = "banned" -> @
                                             [] OTHER -> @ + 1],
                            prior |-> auth_last.streak[bot]]
    /\ UNCHANGED database_manager
    /\ UNCHANGED <<lvars, pvars, ovars, rvars, avars, evars>>

\* time passes
AuthTick ==
    /\ clock + TickSeconds <= MaxTicks * TickSeconds
    /\ clock' = clock + TickSeconds
    /\ UNCHANGED <<database_manager, valid_keys, failed_attempts, is_banned, is_authenticated,
                   auth_count, auth_last>>
    /\ UNCHANGED <<lvars, pvars, ovars, rvars, avars, evars>>

NextAuth ==
    \/ \E bot \in Bots, key \in Keys : AuthGenerate(bot, key)
    \/ \E bot \in Bots, key \in Keys, d \in {0, TickSeconds} : AuthVerify(bot, key, d)
    \/ AuthTick

SpecAuth == InitAuth /\ [][NextAuth]_ovars_all

(***************************************************************************)
(* SpecEcho: the size limit of the echo cache in _construct_echo_info.     *)
(* A key stands for f"{target_index}_{echo}"; an entry is the key with its *)
(* create_timestamp.  The first BurstLen frames arrive at time 0.          *)
(***************************************************************************)

EchoTick == 60

\* a purge that also takes the entries aged exactly 120 s
PurgeOld_AtLimit(cache, now_ts) == { e \in cache : ~(now_ts - e.ts >= 120) }
\* old_keys = [k ... if now_ts - v.get("create_timestamp", 0) > 120], deleted
PurgeOld(cache, now_ts) == { e \in cache : ~(now_ts - e.ts > 120) }

\* self.echo_cache[echo_key] = echo_info (an existing key is overwritten),
\* then the purge when the size is a multiple of 100
record_echo(cache, key, now_ts) ==
    LET c == { e \in cache : e.key # key } \cup {[key |-> key, ts |-> now_ts]}
    IN  IF Cardinality(c) % 100 = 0 THEN PurgeOld(c, now_ts) ELSE c

InitEcho ==
    /\ echo_ts = {}
    /\ ec_count = 0
    /\ ec_clock = 0
    /\ ec_last = [before |-> {}, key |-> 0, now |-> 0, next |-> 1]
    /\ RecvAtRest
    /\ ConnAtRest
    /\ ListenerAtRest
    /\ OrderAtRest
    /\ RoutesAtRest
    /\ AdapterAtRest
    /\ AuthAtRest

\* _construct_echo_info(message_data, target_index) for a frame whose key is key
EcRecord(key) ==
    /\ ec_count < MaxEchoRecords
    /\ key # 0
    /\ ec_count' = ec_count + 1
    /\ echo_ts' = record_echo(echo_ts, key, ec_clock)
    /\ ec_last' = [before |-> echo_ts, key |-> key, now |-> ec_clock,
                    next |-> IF key = ec_last.next THEN key + 1 ELSE ec_last.next]
    /\ UNCHANGED <<ec_clock, skvars>>
    /\ UNCHANGED <<lvars, pvars, ovars, rvars, avars, uvars>>

\* time passes
EcTick ==
    /\ ec_count >= BurstLen
    /\ ec_clock < MaxEchoTicks * EchoTick
    /\ ec_clock' = ec_clock + EchoTick
    /\ UNCHANGED <<echo_ts, ec_count, ec_last, skvars>>
    /\ UNCHANGED <<lvars, pvars, ovars, rvars, avars, uvars>>

\* the frames of the burst carry new echoes; a later frame carries a new
\* echo or the echo of the first frame again
EchoKeys == {ec_last.next} \cup (IF ec_count >= BurstLen THEN {1} ELSE {})

NextEcho ==
    \/ \E key \in EchoKeys : EcRecord(key)
    \/ EcTick

SpecEcho == InitEcho /\ [][NextEcho]_ovars_all

(***************************************************************************)
(* SpecRecv: the receive loop over a SakoyaWebSocketAdapter,               *)
(* `async for message in target_ws` with __anext__ and recv.  A frame of   *)
(* the target is known by its kind:                                        *)
(*   "send"      a MessageSend that sakoya_send_to_onebot_api converts     *)
(*   "send_bad"  a MessageSend whose conversion raises                     *)
(*   "receive"   JSON with bot_id and content that MessageReceive accepts  *)
(*   "receive_bad" such JSON with a key MessageReceive does not have       *)
(*   "json"      other JSON that is no MessageSend                         *)
(*   "text"      no JSON                                                   *)
(***************************************************************************)

SkKinds == {"send", "send_bad", "receive", "receive_bad", "json", "text"}

\* recv() on a frame of this kind: what it returns ("onebot": the
\* converted frame, "raw": raw_message), or that it raises
recv_outcome(kind) ==
    CASE kind \in {"send", "receive"} -> "onebot"
      [] kind \in {"json", "text"} -> "raw"
      [] OTHER -> "raises"

\* __anext__: `except Exception: raise StopAsyncIteration`
anext_outcome(kind) == IF recv_outcome(kind) = "raises" THEN "stop" ELSE recv_outcome(kind)

InitRecv ==
    /\ sk_inbox = <<>>
    /\ sk_count = 0
    /\ sk_loop = "running"
    /\ sk_yielded = <<>>
    /\ sk_last = [n |-> 0, kind |-> "", outcome |-> ""]
    /\ echo_ts = {}
    /\ ec_count = 0
    /\ ec_clock = 0
    /\ ec_last = "none"
    /\ ConnAtRest
    /\ ListenerAtRest
    /\ OrderAtRest
    /\ RoutesAtRest
    /\ AdapterAtRest
    /\ AuthAtRest

\* the target sends a frame
SkArrive(kind) ==
    /\ sk_count < MaxSkFrames
    /\ sk_count' = sk_count + 1
    /\ sk_inbox' = Append(sk_inbox, [n |-> sk_count + 1, kind |-> kind])
    /\ UNCHANGED <<sk_loop, sk_yielded, sk_last>>
    /\ UNCHANGED <<echo_ts, ec_count, ec_clock, ec_last>>
    /\ UNCHANGED <<lvars, pvars, ovars, rvars, avars, uvars>>

\* one turn of the loop: __anext__ takes the next frame; StopAsyncIteration
\* ends the loop
SkNext ==
    /\ sk_loop = "running"
    /\ sk_inbox # <<>>
    /\ LET f == Head(sk_inbox)
           outcome == anext_outcome(f.kind)
       IN  /\ sk_inbox' = Tail(sk_inbox)
           /\ sk_loop' = IF outcome = "stop" THEN "ended" ELSE "running"
           /\ sk_yielded' = IF outcome = "stop" THEN sk_yielded
                            ELSE Append(sk_yielded, [n |-> f.n, form |-> outcome])
           /\ sk_last' = [n |-> f.n, kind |-> f.kind, outcome |-> outcome]
    /\ UNCHANGED sk_count
    /\ UNCHANGED <<echo_ts, ec_count, ec_clock, ec_last>>
    /\ UNCHANGED <<lvars, pvars, ovars, rvars, avars, uvars>>

NextRecv ==
    \/ \E kind \in SkKinds : SkArrive(kind)
    \/ SkNext

SpecRecv == InitRecv /\ [][NextRecv]_ovars_all

(***************************************************************************)
(* Claims about the message pipeline, checked under SpecRoute and          *)
(* SpecStartup.                                                            *)
(***************************************************************************)

\* the slots the last step wrote a frame to
SentSlots(sent) == { x[1] : x \in sent }

\* the last step was _process_client_message of the client-recv loop on a JSON
\* frame the preprocessing hooks let through
ClientStep(op) == op.op = "client" /\ op.f.json /\ op.hook # "drop"

(***************************************************************************)
(* C2: a client frame that carries an echo field is sent to at most one    *)
(* target, and only to a target t whose entry (t, echo) is in the echo     *)
(* cache when the frame arrives; with no such entry it is sent to no       *)
(* target.                                                                 *)
(***************************************************************************)
C2_EchoToOneTarget ==
    [][ (ClientStep(lastop') /\ lastop'.f.echo # "absent") =>
            /\ Cardinality(SentSlots(sent_targets')) <= 1
            /\ \A t \in SentSlots(sent_targets') :
                   <<t, StrOf(lastop'.f.echo)>> \in echo_cache ]_pvars

(***************************************************************************)
(* C3: a frame with echo e received from target t registers the one cache  *)
(* entry (t, e); after the client frame carrying echo e was processed, the *)
(* entry of the target it belongs to (the first target that holds one) is  *)
(* gone from the cache.                                                    *)
(***************************************************************************)
C3_EchoEntryLifecycle ==
    [][ /\ (lastop'.op = "target" /\ lastop'.f.json /\ lastop'.f.echo # "absent") =>
               /\ <<lastop'.t, StrOf(lastop'.f.echo)>> \in echo_cache'
               /\ echo_cache' \ echo_cache \subseteq {<<lastop'.t, StrOf(lastop'.f.echo)>>}
        /\ (ClientStep(lastop') /\ lastop'.f.echo # "absent") =>
               LET m == EchoLookup(StrOf(lastop'.f.echo), target_connections, echo_cache)
               IN  m > 0 => <<m, StrOf(lastop'.f.echo)>> \notin echo_cache' ]_pvars

(***************************************************************************)
(* C4: a client event without echo that the command handler does not       *)
(* intercept is written to exactly the enabled slots that hold a live      *)
(* socket, leaving out the Sakoya slots when the frame is a meta_event or  *)
(* carries one of the pass-through actions; disabled and empty slots get   *)
(* nothing.                                                                *)
(***************************************************************************)
C4_FanOut ==
    (ClientStep(lastop) /\ lastop.f.echo = "absent" /\ lastop.hook = "pass") =>
        SentSlots(sent_targets) =
            { i \in 1..Len(target_connections) :
                /\ target_connections[i] # 0
                /\ sock_state[target_connections[i]] = "open"
                /\ i <= Len(config) /\ ~is_disabled(config, i)
                /\ ~(is_sakoya(config, i) /\ skip_sakoya(lastop.f)) }

(***************************************************************************)
(* C6: when the command handler returns a response for a client frame, the *)
(* response goes to the client with target index 0 and no target socket    *)
(* receives any frame because of that client frame.                        *)
(***************************************************************************)
C6_HandledNotForwarded ==
    (lastop.op = "client" /\ lastop.hook = "handled") =>
        /\ sent_targets = {}
        /\ \A x \in sent_client : x[1] = 0

(***************************************************************************)
(* C7: startup order of start_proxy: first client frame stored, then the   *)
(* dial phase, then the replay of the first frame, then the reboot         *)
(* notification (to the client with target index 0, to no target), then    *)
(* the forwarding loops.  Nothing is dialed before the first frame is      *)
(* stored, nothing is written to any socket before the replay step, and no *)
(* frame is handled by a forwarding loop before all four steps are done.   *)
(***************************************************************************)
StartupSteps == <<"first", "dial", "replay", "reboot">>

C7_StartupOrder ==
    /\ Len(startup) <= Len(StartupSteps)
    /\ startup = SubSeq(StartupSteps, 1, Len(startup))
    /\ (\E s \in Socks : sock_state[s] # "unused") =>
           (Len(startup) >= 2 /\ first_message # NoFrame)
    /\ Len(startup) < 3 => (sent_targets = {} /\ sent_client = {})
    /\ lastop.op = "replay" => lastop.f = first_message
    /\ lastop.op = "reboot" =>
           (sent_targets = {} /\ \A x \in sent_client : x[1] = 0)
    /\ (nframes > 0 \/ lastop.op \in {"client", "target"}) => startup = StartupSteps

\* a forwarding loop has handled a target frame after a complete startup that
\* dialed a target and sent the reboot notification path's frame to the client
C7_Witness ==
    /\ startup = StartupSteps
    /\ lastop.op = "target"
    /\ sent_client # {}
    /\ \E s \in Socks : sock_state[s] = "open"

(***************************************************************************)
(* Claims about the tasks, checked under SpecConn and SpecReconnect.       *)
(***************************************************************************)

\* task k is a live task of slot t
TaskOf(k, t) == tasks[k].t = t /\ tasks[k].pc \notin {"unused", "done"}

\* slot t holds a socket that is open
SlotLive(t) ==
    /\ t <= Len(target_connections)
    /\ target_connections[t] # 0
    /\ sock_state[target_connections[t]] = "open"

(***************************************************************************)
(* C5: for a slot that is disabled in the current configuration no socket  *)
(* is held, and no step of a reconnect procedure dials it, at startup, in  *)
(* the reconnect loops and after a hot reload that disabled it.            *)
(***************************************************************************)
C5_DisabledNeverDialed ==
    \A t \in 1..Len(config) :
        is_disabled(config, t) =>
            /\ t <= Len(target_connections) => target_connections[t] = 0
            /\ ~(lastop.op = "redial" /\ lastop.t = t)

(***************************************************************************)
(* C8: while the client is connected and no reload is in progress, every   *)
(* enabled slot whose socket is closed (or that has none) has a task that  *)
(* reads the socket or runs the reconnect procedure: a recv loop never     *)
(* ends leaving the slot without one.                                      *)
(***************************************************************************)
C8_ReconnectTriggered ==
    (mpc = "forward" /\ running /\ cws = "OPEN" /\ ~reloading) =>
        \A t \in 1..Len(config) :
            (~is_disabled(config, t) /\ ~SlotLive(t)) => \E k \in TaskIds : TaskOf(k, t)

(***************************************************************************)
(* C9: one run of the reconnect procedure makes at most 40 near-phase      *)
(* attempts; it is in its far phase only after 40 failed near-phase        *)
(* attempts; an iteration that starts while the endpoint is enabled, the   *)
(* client socket OPEN and the connection running goes on to its wait and   *)
(* dial, and an iteration that starts after the client disconnected (or    *)
(* the connection stopped) ends the procedure.                             *)
(***************************************************************************)
C9_Counts ==
    \A k \in TaskIds :
        /\ tasks[k].attempt <= 40
        /\ tasks[k].pc = "sleep" => tasks[k].attempt < 40
        /\ (tasks[k].pc \in {"farcheck", "farsleep"} \/ tasks[k].far > 0) =>
               tasks[k].attempt = 40

C9_Iteration ==
    \A k \in TaskIds :
        (tasks[k].pc \in {"check", "farcheck"} /\ tasks'[k] # tasks[k]
            /\ lastop'.op \in {"check", "farcheck"}) =>
            IF cws = "OPEN" /\ running
            THEN (tasks[k].t <= Len(config) /\ ~is_disabled(config, tasks[k].t)
                    /\ tasks[k].t <= Len(reconnect_locks) /\ reconnect_locks[tasks[k].t]) =>
                      tasks'[k].pc \in {"sleep", "farsleep", "farcheck"}
            ELSE (tasks[k].pc = "farcheck" \/ tasks[k].attempt < 40) => tasks'[k].pc = "done"

C10_ReplayBeforeRecv ==
    [][ \A k \in TaskIds :
          /\ (tasks[k].pc \in {"sleep", "farsleep"} /\ tasks'[k] # tasks[k]
                /\ lastop'.op = "redial" /\ lastop'.hook = "ok") =>
                 tasks'[k].pc = "replay"
          /\ (tasks'[k].pc = "recv" /\ tasks[k].pc \notin {"recv", "unused"}) =>
                 IF tasks[k].sakoya THEN tasks[k].pc = "replay"
                 ELSE tasks[k].pc = "settle" ]_pvars

\* the positions of a task inside the loops of _reconnect_target
ReconnectPcs == {"check", "sleep", "farcheck", "farsleep"}

\* the reload (0 is start_proxy) that created task k
GenOf(k) == (k - 1) \div NumTargets

(***************************************************************************)
(* C11: no step of a reconnect procedure dials while reloading is true,    *)
(* and after a reload_targets call no task created before that call dials: *)
(* the dials that follow a hot reload are those of the reload itself and   *)
(* of the tasks it created.                                                *)
(***************************************************************************)
C11_NoOldDialOnReload ==
    [][ \A k \in TaskIds :
          (tasks[k].pc \in {"sleep", "farsleep"} /\ tasks'[k] # tasks[k]
              /\ lastop'.op = "redial") =>
              /\ ~reloading
              /\ GenOf(k) >= nreloads ]_pvars

(***************************************************************************)
(* C12: at no time are two tasks inside the reconnect procedure of the     *)
(* same slot.                                                              *)
(***************************************************************************)
C12_ReconnectSerialized ==
    \A k1, k2 \in TaskIds :
        (k1 # k2 /\ tasks[k1].pc \in ReconnectPcs /\ tasks[k2].pc \in ReconnectPcs) =>
            tasks[k1].t # tasks[k2].t

(***************************************************************************)
(* Claims about reload_targets, checked under SpecReload.                  *)
(***************************************************************************)

\* the steps of reload_targets
ReloadOps == {"reload_begin", "reload_closed", "reload_dialed"}

(***************************************************************************)
(* C13: no step of reload_targets closes the client socket, clears running *)
(* or ends the client-recv loop; a client frame without echo that the      *)
(* hooks let through is written to every enabled non-Sakoya slot that      *)
(* holds an open socket, whatever the other slots hold (None or nothing    *)
(* yet), and to no slot without a socket.                                  *)
(***************************************************************************)
C13_ReloadKeepsClient ==
    [][ /\ lastop'.op \in ReloadOps => (cws' = cws /\ running' = running /\ mpc' = mpc)
        /\ (ClientStep(lastop') /\ lastop'.f.echo = "absent" /\ lastop'.hook = "pass") =>
              /\ \A i \in 1..Len(target_connections) :
                     ( /\ target_connections[i] # 0
                       /\ sock_state[target_connections[i]] = "open"
                       /\ ~is_disabled(config, i)
                       /\ ~is_sakoya(config, i) ) => i \in SentSlots(sent_targets')
              /\ \A i \in SentSlots(sent_targets') :
                     i <= Len(target_connections) /\ target_connections[i] # 0 ]_pvars

\* a client frame was processed while reload_targets waited in a dial, the
\* slot array shorter than the configuration, and reached a target
C13_Witness ==
    /\ lastop.op = "client"
    /\ reloading /\ reload_at[1] = "dial"
    /\ Len(target_connections) < Len(config)
    /\ sent_targets # {}
    /\ cws = "OPEN" /\ running /\ mpc = "forward"

\* the sockets a slot array holds
HeldSocks(tc) == { tc[i] : i \in { j \in 1..Len(tc) : tc[j] # 0 } }

(***************************************************************************)
(* C14: when reload_targets returns, every socket it dialed (every socket  *)
(* the slot array then holds) has had first_message replayed to it and has *)
(* a recv task.                                                            *)
(***************************************************************************)
C14_ReloadReplays ==
    [][ (lastop'.op \in ReloadOps /\ reload_at' = ReloadIdle) =>
            \A s \in HeldSocks(target_connections') :
                /\ s \in replayed_to'
                /\ \E k \in TaskIds : tasks'[k].pc = "recv" /\ tasks'[k].sock = s ]_pvars

(***************************************************************************)
(* Claims about stop(), checked under SpecRoute and SpecConn.              *)
(***************************************************************************)

(***************************************************************************)
(* C15: when stop() returns, running is false, the client socket and every *)
(* target socket are closed, the slot array is empty and the echo cache    *)
(* has no entry.                                                           *)
(***************************************************************************)
C15_StopPostcondition ==
    [][ lastop'.op = "stop" =>
            /\ ~running'
            /\ cws' = "CLOSED"
            /\ \A s \in Socks : sock_state'[s] # "open"
            /\ target_connections' = <<>>
            /\ echo_cache' = {} ]_pvars

(***************************************************************************)
(* C16: once the connection has been stopped, no task of it dials a        *)
(* target, replays first_message or processes a target frame.              *)
(***************************************************************************)
C16_NothingAfterStop ==
    [][ mpc = "stopped" => lastop'.op \notin {"redial", "replayed", "target"} ]_pvars

(***************************************************************************)
(* C17: while the client socket is OPEN, running is cleared and the client *)
(* socket is closed only by the step in which the client socket fails;     *)
(* no dial, target closure, frame or hook outcome does it.                 *)
(***************************************************************************)
C17_OnlyClientFailureEnds ==
    [][ (cws = "OPEN" /\ (cws' # "OPEN" \/ (running /\ ~running'))) =>
            lastop'.op = "stop" ]_pvars

(***************************************************************************)
(* Claims about what is persisted, checked under SpecRoute.                *)
(***************************************************************************)

(***************************************************************************)
(* C18: processing a client frame that is a failed API response calls      *)
(* save_message in no direction; a successful API response is saved as     *)
(* SEND and any other frame the hooks let through as RECV.                 *)
(***************************************************************************)
C18_FailedResponseNotSaved ==
    ClientStep(lastop) =>
        \A x \in saved :
            \/ x[1] = "SEND" /\ (lastop.f.status = "ok" \/ lastop.hook = "handled")
            \/ x[1] = "RECV" /\ lastop.f.status = ""

(***************************************************************************)
(* C19: a JSON frame from a target that has no echo key and is a           *)
(* send-style API call is saved as a message_sent pseudo-event with        *)
(* direction SEND; a frame that has an echo key is recorded in the echo    *)
(* cache under (target, echo) and nothing is saved.                        *)
(***************************************************************************)
C19_TargetFramePersisted ==
    (lastop.op = "target" /\ lastop.f.json) =>
        IF lastop.f.echo = "absent"
        THEN saved = {<<"SEND", "message_sent">>}
        ELSE /\ saved = {}
             /\ <<lastop.t, StrOf(lastop.f.echo)>> \in echo_cache

(***************************************************************************)
(* C20: the echo cache never holds an entry whose target index is 0.       *)
(***************************************************************************)
C20_NoEntryForIndexZero ==
    \A x \in echo_cache : x[1] # 0

(***************************************************************************)
(* Claims about the replay of first_message, checked under SpecRoute.      *)
(***************************************************************************)

\* C21: processing first_message again after a reconnect adds no persisted
\* row: the step that runs _process_client_message(first_message) for a
\* reconnected target calls database_manager.save_message for nothing (the
\* replay of start_proxy is the first time the frame is processed).
C21_ReplayAddsNoRow ==
    lastop.op = "reconnected" => saved = {}

(***************************************************************************)
(* Claims about the order of the client frames, checked under SpecOrder.   *)
(***************************************************************************)

\* C22: every single target is sent the frames of the client-recv loop in
\* the order the client sent them: of two writes to the same slot the
\* earlier one carries the frame the client sent earlier.
C22_ClientOrderKept ==
    \A a, b \in 1..Len(delivered) :
        (a < b /\ delivered[a][1] = delivered[b][1]) => delivered[a][2] < delivered[b][2]

\* two frames were written to the same target while the client had already
\* sent a third one
C22_Witness ==
    /\ \E a, b \in 1..Len(delivered) : a < b /\ delivered[a][1] = delivered[b][1]
    /\ inbox # <<>>
    /\ lastop.op = "send"

(***************************************************************************)
(* Claims about the route table and the listeners, checked under           *)
(* SpecRoutes.                                                             *)
(***************************************************************************)

\* the listener has a stored config for the connection_id
HasConfig(id) ==
    IF listener_class = "UnifiedProxyServer" THEN id \in connection_configs
    ELSE connections_config[id].present

\* C23: a client socket whose path resolves to no connection_id is closed
\* with code 1008 and gets no ProxyConnection; one whose path resolves to a
\* connection_id without a stored config is closed with code 1011; whichever
\* listener class runs.
C23_CloseCodes ==
    rt_last.op = "accept" =>
        LET id == RouteOf(route_map, rt_last.port, rt_last.path)
        IN  /\ id = 0 => (rt_last.code = 1008 /\ rt_last.conn = 0)
            /\ (id # 0 /\ ~HasConfig(id)) => (rt_last.code = 1011 /\ rt_last.conn = 0)

\* connection i is enabled and its client_endpoint has a port and a path
Routable(cfg, i) ==
    /\ cfg[i].present /\ cfg[i].enabled
    /\ parse_endpoint(listener_class, cfg[i].ep).ok
RouteKey(cfg, i) ==
    LET r == parse_endpoint(listener_class, cfg[i].ep) IN <<r.port, r.path>>
\* no earlier connection of the configuration has the port and path of i
FirstWithKey(cfg, i) ==
    \A j \in 1..(i - 1) : Routable(cfg, j) => RouteKey(cfg, j) # RouteKey(cfg, i)
HasRoute(i) == \E t \in route_map : t[3] = i

\* C24: after the route table was built from a configuration, every enabled
\* connection that is the first with its (port, path) has the route of that
\* port and path, a later enabled connection with the same port and path has
\* no route and no stored config, and a disabled connection has no route.
C24_RouteTable ==
    rt_last.op \in {"start", "reload"} =>
        \A i \in ConnIds :
            LET cfg == connections_config
            IN  /\ (Routable(cfg, i) /\ FirstWithKey(cfg, i)) =>
                       <<RouteKey(cfg, i)[1], RouteKey(cfg, i)[2], i>> \in route_map
                /\ (Routable(cfg, i) /\ ~FirstWithKey(cfg, i)) =>
                       (~HasRoute(i) /\ i \notin connection_configs)
                /\ (~cfg[i].present \/ ~cfg[i].enabled) => ~HasRoute(i)

(***************************************************************************)
(* Claims about the per-port servers, checked under SpecPorts.             *)
(***************************************************************************)

\* the servers that listen on port p
Serving(p) == { k \in PortTaskIds : port_servers[k] = PortTask(p, "serving") }

\* every port of the route table has exactly one server, no other port has one
PortsSettled ==
    \A p \in Ports :
        Cardinality(Serving(p)) = IF p \in RoutePorts(route_map) THEN 1 ELSE 0

\* reload_routes creates a server task for every port that is new in the table
C25_NewPortsStarted ==
    rt_last'.op = "reload" =>
        \A p \in RoutePorts(route_map') \ RoutePorts(route_map) :
            \E k \in PortTaskIds :
                port_servers[k].st = "unused" /\ port_servers'[k] = PortTask(p, "created")

\* C25: reload_routes starts a server for every port that is in the new
\* route table and was not in the old one; a running server whose port left
\* the table exits (unless the port comes back before its tick); no port ever
\* has two servers, and after the last reload every port of the table has
\* exactly one running server and no other port keeps one.
C25_PortServers ==
    /\ [][C25_NewPortsStarted]_ovars_all
    /\ [](\A p \in Ports : Cardinality(Serving(p)) <= 1)
    /\ \A p \in Ports :
          (Serving(p) # {} /\ p \notin RoutePorts(route_map))
              ~> (Serving(p) = {} \/ p \in RoutePorts(route_map))
    /\ <>[]PortsSettled

\* a port left the table and came back: its old server has exited and the
\* server the second reload started is the one that listens
C25_Witness ==
    /\ rt_count[2] = 2
    /\ PortsSettled
    /\ \E p \in RoutePorts(route_map) :
          \E k \in PortTaskIds : port_servers[k] = PortTask(p, "done")



\* C27: a frame in the pass-through set (one of the pass-through actions, or
\* post_type meta_event) handed to the adapter's send is written to the
\* target as the OneBot JSON it came as: not translated and not dropped.
C27_PassThrough ==
    (/\ ad_last.kind # "init"
     /\ ad_last.frame.json
     /\ \/ ad_last.frame.action \in
              {"get_login_info", "get_status", "get_version_info", "lifecycle", "_connect"}
        \/ ad_last.frame.post_type = "meta_event")
        => (ad_last.kind = "onebot" /\ ad_last.message = ad_last.frame.message)

IsImage(g) == g.type = "image"

\* the message the reply cache holds under id, <<>> if it holds none
CachedMessage(id) ==
    IF \E k \in 1..Len(message_cache) : message_cache[k].id = id
    THEN message_cache[CHOOSE k \in 1..Len(message_cache) : message_cache[k].id = id].message
    ELSE <<>>

ForwardedEvent ==
    /\ ad_last.kind = "sakoya"
    /\ ad_last.frame.post_type = "message"

CacheIdsOf(cache) == { cache[k].id : k \in 1..Len(cache) }

\* a send that puts a message id the cache does not have into a full cache
C30_EvictsOldest ==
    (/\ Len(message_cache) = 100
     /\ ad_last'.frame.post_type = "message"
     /\ ad_last'.frame.id \notin CacheIdsOf(message_cache) \cup {0})
        => /\ Len(message_cache') = 100
           /\ \A k \in 2..100 : message_cache'[k - 1] = message_cache[k]
           /\ message_cache'[100].id = ad_last'.frame.id
           /\ message_cache[1].id \notin CacheIdsOf(message_cache')

\* C30: the reply cache never holds more than 100 entries after a send, and
\* putting a 101st message id in evicts the entry put in earliest and keeps
\* every other one.
C30_CacheBounded ==
    /\ [](Len(message_cache) <= 100)
    /\ [][C30_EvictsOldest]_ovars_all

C30_Witness ==
    /\ Len(message_cache) = 100
    /\ ad_last.frame.id = 101
    /\ message_cache[1].id = 2
    /\ message_cache[100].id = 101


IsClaimedSeg(g) == g.type \in {"text", "at", "image", "reply"}

\* C26: an event converted to a Sakoya MessageReceive and back has the same
\* user_id and group_id and the same text, at, image and reply segments, in
\* the same order and with the same payloads.
C26_RoundTrip ==
    conv.pc = "back" =>
        /\ conv.back.user_id = conv.event.user_id
        /\ conv.back.group_id = conv.event.group_id
        /\ SelectSeq(conv.back.message, IsClaimedSeg) = SelectSeq(conv.event.message, IsClaimedSeg)

\* the same for the events that have none but text, at and reply segments
C26_RoundTripNoImage ==
    (conv.pc = "back" /\ \A k \in 1..Len(conv.event.message) :
                             conv.event.message[k].type \in {"text", "at", "reply", "record"})
        => /\ conv.back.user_id = conv.event.user_id
           /\ conv.back.group_id = conv.event.group_id
           /\ SelectSeq(conv.back.message, IsClaimedSeg) = SelectSeq(conv.event.message, IsClaimedSeg)


\* C28: verify_key reports failure when the key is unknown, belongs to
\* another bot or has expired: the first component of its result is false,
\* and the command answers with a PERMISSION_DENIED error, not with success.
C28_FailedVerifyDenied ==
    (auth_last.op = "verify" /\ auth_last.case \in {"unknown", "other_bot", "expired"})
        => /\ auth_last.success = AuthBool(FALSE)
           /\ auth_last.answer = "PERMISSION_DENIED"


\* the cache with the entry of the last call put in, before any purge
EcRecorded ==
    { e \in ec_last.before : e.key # ec_last.key } \cup {[key |-> ec_last.key, ts |-> ec_last.now]}

\* C31: when recording a target frame brings the echo cache to a size that
\* is a multiple of 100, the entries created more than 120 s earlier are
\* removed in that step and no entry aged 120 s or less is; at any other
\* size no entry is removed.
C31_LazyPurge ==
    ec_count > 0 =>
        IF Cardinality(EcRecorded) % 100 = 0
        THEN /\ \A e \in EcRecorded : (ec_last.now - e.ts > 120) => e \notin echo_ts
             /\ \A e \in EcRecorded : (ec_last.now - e.ts <= 120) => e \in echo_ts
             /\ echo_ts \subseteq EcRecorded
        ELSE echo_ts = EcRecorded

C31_Witness ==
    /\ Cardinality(EcRecorded) = 100
    /\ \E e \in EcRecorded : ec_last.now - e.ts > 120
    /\ \E e \in echo_ts : e.key # ec_last.key /\ ec_last.now - e.ts > 0
    /\ Cardinality(echo_ts) < 100


\* C32: when the conversion of a frame received from a Sakoya target fails,
\* the frame is handed on as it came and the receive loop goes on: a frame
\* the target sent is never left unreceived behind a failed one.
C32_ConversionFailureConfined ==
    /\ (sk_loop # "none" /\ sk_last.kind \in {"send_bad", "receive_bad"})
           => /\ sk_yielded # <<>>
              /\ sk_yielded[Len(sk_yielded)] = [n |-> sk_last.n, form |-> "raw"]
    /\ sk_inbox # <<>> => sk_loop = "running"


\* the step in which the client-recv loop takes a frame that is no JSON
TakesNonJson == lastop'.op = "take" /\ ~lastop'.f.json

C33_DroppedStep ==
    TakesNonJson =>
        /\ saved' = {}
        /\ sent_targets' = {}
        /\ sent_client' = {}
        /\ delivered' = delivered
        /\ in_flight' = in_flight
        /\ self_id' = self_id
        /\ echo_cache' = echo_cache
        /\ running' = running /\ cws' = cws /\ mpc' = "forward"
        /\ inbox' = Tail(inbox)

\* C33: a client frame that is not valid JSON is dropped with no other
\* effect: nothing is saved, nothing is sent to a target or to the client,
\* self_id and the echo cache stay as they were, and the client-recv loop
\* goes on with the next frame.
C33_NonJsonDropped == [][C33_DroppedStep]_ovars_all

C33_Witness ==
    /\ lastop.op = "take"
    /\ ~lastop.f.json
    /\ self_id # 0
    /\ echo_cache # {}
    /\ inbox # <<>>
    /\ mpc = "forward"
    /\ \E i \in 1..Len(target_connections) :
           target_connections[i] # 0 /\ sock_state[target_connections[i]] = "open"


\* the last command was a verify_key call for a bot that had max_attempts
\* failed calls behind it and no successful one since
VerifyAfterMaxAttempts ==
    /\ auth_last.op = "verify"
    /\ auth_last.prior >= max_attempts

\* C34: once a bot has max_attempts failed verify_key calls behind it, with
\* no successful one in between, every later verify_key call for it fails,
\* even with a valid key of its own, with and without a database manager
\* (the ban does not end within the time of the model).
C34_BannedAfterMaxAttempts ==
    VerifyAfterMaxAttempts => (auth_last.case # "ok" /\ auth_last.success # AuthBool(TRUE))

\* the same with a database manager only
C34_BannedWithDatabase ==
    (database_manager /\ VerifyAfterMaxAttempts) => auth_last.case = "banned"

KeyNames(keys) == { k.key : k \in keys }

\* a verify_key call of the step that returns True
VerifySucceeds ==
    /\ auth_last'.op = "verify"
    /\ auth_count' = auth_count + 1
    /\ auth_last'.success = AuthBool(TRUE)

C35_OwnBotOnce ==
    VerifySucceeds =>
        /\ \E k \in valid_keys : k.key = auth_last'.key /\ k.bot_id = auth_last'.bot
        /\ auth_last'.key \notin KeyNames(valid_keys')

C35_OnlyGenerateAdds ==
    (KeyNames(valid_keys') \ KeyNames(valid_keys) # {})
        => (auth_last'.op = "generate"
            /\ KeyNames(valid_keys') \ KeyNames(valid_keys) = {auth_last'.key})

FlagConsulted(i) == i <= Len(target_sakoya_flags) /\ target_sakoya_flags[i]

\* C36: after any number of reload_targets calls the Sakoya flag the fan-out
\* consults for slot i is the sakoya_protocol setting of endpoint i of the
\* current configuration.
C36_FlagsFollowConfig ==
    (running /\ nreloads > 0 /\ reload_at = ReloadIdle)
        => \A i \in Slots : FlagConsulted(i) = is_sakoya(config, i)


\* C37: every target slot has at most one open socket and the slot array
\* has no more positions than endpoints: a socket a dial opened is held by
\* one slot or has been closed, also when a reconnect task wakes up during
\* reload_targets or after stop().
C37_SlotsOwnSockets ==
    /\ Len(target_connections) <= NumTargets
    /\ \A s \in Socks :
           sock_state[s] = "open" => \E i \in 1..Len(target_connections) : target_connections[i] = s
    /\ \A i, j \in 1..Len(target_connections) :
           (i # j /\ target_connections[i] # 0) => target_connections[i] # target_connections[j]


\* C38: a successful reconnect of target t sends nothing to any other
\* target: the replay of first_message is written to the socket of t alone.
C38_ReplayOnlyToRedialed ==
    lastop.op = "reconnected" => \A x \in sent_targets : x[1] = lastop.t


\* C39: in UnifiedProxyServer the connection_id maps to the Proxy Connection
\* that is being served: the cleanup of a replaced connection never removes
\* the entry of the connection that replaced it.
C39_EntryOfServedConnection ==
    server = "UnifiedProxyServer" =>
        \A a \in Accepts : (hpc[a] = "serving" /\ conn_running[a]) => active_connections = a


\* the slots the in-flight call of client frame n still has to write to
TodoOf(fl, n) ==
    UNION { { fl[k].todo[j] : j \in 1..Len(fl[k].todo) } :
            k \in { x \in 1..Len(fl) : fl[x].n = n } }

\* a write of the fan-out that the step made or tried
FanOutWrite == lastop'.op \in {"send", "send_error"}

C40_RestStillWritten(ops) ==
    (FanOutWrite /\ lastop'.op \in ops) =>
        \A k \in 1..Len(in_flight) :
            \A i \in TodoOf(in_flight, in_flight[k].n) :
                (/\ i # lastop'.t
                 /\ sock_state[target_connections[i]] = "open")
                => i \in TodoOf(in_flight', in_flight[k].n)

\* C40: during the fan-out of one client event a failed write to one target
\* (a closed socket or any other send error) does not keep the frame from
\* the other targets: every live slot the call still had to write to is
\* still to be written to after the step.
C40_SendFailureIsolated == [][C40_RestStillWritten({"send", "send_error"})]_ovars_all

\* the part of C40 about a closed socket, where the loop goes on
C40_ClosedSocketSkipped == [][C40_RestStillWritten({"send"})]_ovars_all

\* a write to a closed socket was skipped while the call has a live slot left
C40_ClosedReached ==
    /\ lastop.op = "send"
    /\ lastop.t # 0
    /\ sent_targets = {}
    /\ in_flight # <<>>

====
